---- MODULE Spec2Model ----
(***************************************************************************)
(* Model of the seanime plugin UI runtime: the client-event dispatch loop  *)
(* of UI.Register, the DOM proxy of DOMManager (request/reply and          *)
(* observers), the per-plugin scheduler, and the web client's DOM manager. *)
(***************************************************************************)
EXTENDS Integers, Sequences, FiniteSets, TLC

\* ---------------------------------------------------------------- bounds
MaxReq     == 1   \* DOM requests (promises) the script issues
MaxObs     == 1   \* observers the script creates with ctx.dom.observe
MaxOnReady == 1   \* ctx.dom.onReady registrations
MaxEvents  == 2   \* client events received over the WebSocket
MaxCancel  == 1   \* script calls of one observer's cancel function
MaxUnload  == 1   \* times the plugin is unloaded
ChanCap    == 1   \* capacity of an event listener's channel
MaxLoads   == 2   \* page loads of the web client (first load and reloads)
MaxElems   == 2   \* elements of a page that match the observed selector
MaxAgain   == 1   \* unloads of a plugin that is already unloaded
MaxSet     == 2   \* setAttribute calls of the script
MaxDomListeners == 2   \* DOM event listeners the script adds
MaxDomEvents    == 7   \* DOM events handed to HandleDOMEvent
TicksPerSecond  == 2   \* clock ticks in one second
MaxTicks        == 3   \* clock ticks that pass
MaxRegister     == 1   \* calls of $ui.register after the first
MaxOsCalls      == 3   \* calls of $os functions
PageNodes       == 2   \* elements of the page's document
MaxCreated      == 1   \* elements made by handleDOMCreate
MaxAllListeners == 1   \* listeners registered with an empty filter list
MaxScriptCalls  == 2   \* binding calls of the script where requests and DOM events are mixed
MaxMixedEvents  == 1   \* client events, and DOM events, where requests and DOM events are mixed
MaxDomOps       == 3   \* runs of the client's DOM handlers on a document
MaxMutations    == 2   \* mutations of the page's document
MaxTrayEvents   == 3   \* tray events and popover changes of a page
MaxSetModules   == 2   \* calls of SetModulesPartial

\* ------------------------------------------------------ program constants
MAX_EXCEPTIONS == 5
MAX_EFFECT_CALLBACKS == 100
RESET_EFFECT_CALLBACK_INTERVAL == 1   \* seconds

\* ------------------------------------------------------- extension ids
Self  == "p1"     \* u.extensionID
Other == "p2"     \* the id of some other plugin
Empty == ""       \* broadcast

\* ---------------------------------------------------- client event types
ClientDOMQueryResultEvent     == "dom:queryResult"
ClientDOMQueryOneResultEvent  == "dom:queryOneResult"
ClientDOMCreateResultEvent    == "dom:createResult"
ClientDOMElementUpdatedEvent  == "dom:elementUpdated"
ClientDOMObserveResultEvent   == "dom:observeResult"
ClientDOMReadyEvent           == "dom:ready"
ClientRenderTraysEvent        == "render_trays"
ClientRenderTrayEvent         == "render_tray"

\* ---------------------------------------------------- server event types
ServerDOMQueryEvent       == "dom:query"
ServerDOMQueryOneEvent    == "dom:queryOne"
ServerDOMCreateEvent      == "dom:create"
ServerDOMManipulateEvent  == "dom:manipulate"
ServerDOMObserveEvent     == "dom:observe"
ServerDOMStopObserveEvent == "dom:stopObserve"

\* The element a handle of the script refers to, and another element.
Elems == {"e1", "e2"}

\* Kinds of DOM request that return a promise.
ReqKinds == {"query", "queryOne", "create", "getText", "getAttribute"}

\* Kinds of DOM request inside the element of a handle: element.query and
\* element.queryOne.
NestedKinds == {"elementQuery", "elementQueryOne"}

\* Attribute names and values of the element; Null is JavaScript's null and
\* ElementNotFound the result {error: "Element not found"}.
AttrNames == {"id", "title"}
AttrValues == {"a", "b"}
Null == "null"
ElementNotFound == "error: Element not found"

\* A client plugin event.  id is the requestId (or observerId) of the
\* payload, 0 standing for the empty string; ok says that a createResult
\* payload carries an element object; n is the number of elements carried;
\* seq is the position of the event in the WebSocket's delivery order.
\* result is the result of a dom:elementUpdated payload.
ClientPluginEvent(type, ext, id, action, elem, ok, n) ==
  [type |-> type, ext |-> ext, id |-> id, action |-> action,
   elem |-> elem, ok |-> ok, n |-> n, seq |-> 0, result |-> Null]

NoEvent == ClientPluginEvent("none", Empty, 0, "", "", TRUE, 0)

VARIABLES
  regState,          \* UI.Register: "none", "running" (callback in the VM), "done"
  unloads,           \* number of unloads performed
  wsSubscriber,      \* u.context.wsSubscriber: "nil", "open", "closed"
  wsChannel,         \* u.context.wsSubscriber.Channel
  arrivals,          \* number of client events received so far
  loop,              \* the goroutine started by UI.Register
  listeners,         \* every EventListener created, indexed by its id
  jobQueue,          \* scheduler: queued tasks
  worker,            \* scheduler: the worker and the task it is running
  stopped,           \* scheduler: Stop() was called
  requests,          \* every DOM request issued, indexed by its requestId
  elementObservers,  \* d.elementObservers (ids)
  observers,         \* every observer created, indexed by its observerId
  onReadyCount,      \* ctx.dom.onReady registrations made
  outbox,            \* server events sent to the client, in order
  trayRenders,       \* number of trayManager.renderTray() calls
  skipped,           \* events the loop skipped as meant for another extension
  client,            \* the web client's DOM manager for this plugin
  unsubscribes,      \* number of UnsubscribeFromClientEvents calls made
  domEventListeners, \* d.eventListeners: every DOMEventListener created, by listener id
  domEvents,         \* number of HandleDOMEvent calls made
  exceptionCount,    \* the exception counter of the plugin
  thrown,            \* number of script callbacks that returned an error
  interrupted,       \* the VM was interrupted by the host
  effect,            \* the effect engine's budget: clock, counter and executions
  reRegistered,      \* later calls of UI.Register: their number, and the listeners the last one found
  os,                \* the host side of $os: the loaded plugin's permissions, calls and file accesses
  dom,               \* the document of the web client: the elements' id attributes and the element descriptors sent
  appContext         \* GlobalAppContext: the module handles, and the SetModulesPartial calls made

vars == <<regState, unloads, wsSubscriber, wsChannel, arrivals, loop,
          listeners, jobQueue, worker, stopped, requests, elementObservers,
          observers, onReadyCount, outbox, trayRenders, skipped, client,
          unsubscribes, domEventListeners, domEvents, exceptionCount, thrown,
          interrupted, effect, reRegistered, os, dom, appContext>>

\* ------------------------------------------------------------- helpers
unloaded == unloads > 0

Registered == {l \in DOMAIN listeners : listeners[l].registered}

IdleLoop == [pc |-> "idle", ev |-> NoEvent, todo |-> {}, cur |-> 0, sends |-> 0]

IdleWorker == [pc |-> "idle", task |-> [kind |-> "none", ref |-> 0, ev |-> NoEvent]]

\* The event type a listener of the given kind is registered for; "" is the
\* empty filter list.
ListenTo(kind) ==
  CASE kind = "query"         -> ClientDOMQueryResultEvent
    [] kind = "queryOne"      -> ClientDOMQueryOneResultEvent
    [] kind = "create"        -> ClientDOMCreateResultEvent
    [] kind = "getText"       -> ClientDOMElementUpdatedEvent
    [] kind = "getAttribute"  -> ClientDOMElementUpdatedEvent
    [] kind = "elementQuery"    -> ClientDOMQueryResultEvent
    [] kind = "elementQueryOne" -> ClientDOMQueryOneResultEvent
    [] kind = "observeResult" -> ClientDOMObserveResultEvent
    [] kind = "observeReady"  -> ClientDOMReadyEvent
    [] kind = "onReady"       -> ClientDOMReadyEvent
    [] kind = "all"           -> ""

\* Listeners of the host with a filter list of more than one entry.
FilterKinds == {"readyOrObserve"}

\* The filter list (ListenTo) of a listener of the given kind.
FilterList(kind) ==
  CASE kind = "all"            -> <<>>
    [] kind = "readyOrObserve" -> <<ClientDOMReadyEvent, ClientDOMObserveResultEvent>>
    [] OTHER                   -> <<ListenTo(kind)>>

\* The server event that carries a request of the given kind.
RequestEvent(kind) ==
  CASE kind = "query"    -> ServerDOMQueryEvent
    [] kind = "queryOne" -> ServerDOMQueryOneEvent
    [] kind = "create"   -> ServerDOMCreateEvent
    [] OTHER             -> ServerDOMManipulateEvent

\* name and value are the params of a dom:manipulate payload.
ServerEvent(type, id, action, elem) ==
  [type |-> type, id |-> id, action |-> action, elem |-> elem,
   name |-> "", value |-> ""]

\* The elements of the page the tree operations work on, named by their
\* ids, and the page's tree: the children of the body ("root") and of each
\* element, in document order.
TreeElems == {"e1", "e2", "e3"}

TreeOps == {"append", "before", "after"}

PageTree ==
  [n \in TreeElems \cup {"root"} |->
     IF n = "root" THEN <<"e1", "e2", "e3">> ELSE <<>>]

\* No page of the web client is loaded.  eventListenersRef is the map of
\* the same name (entries with their key), attached the callbacks attached
\* to elements (id names the addEventListener call that made the callback),
\* occurred the DOM events that occurred, each with the callbacks that were
\* attached for it, triggered the dom:event messages on their way,
\* mutations the number of mutations of the document and mutatedAt the
\* number of server events the page had read when the last one occurred,
\* cleanedAt that number when cleanup ran.  open is the state of the
\* PluginTray component, hasNavigated the value of __plugin_hasNavigatedAtom,
\* trayEvents the tray events and popover changes the component has seen,
\* traySent the tray:opened and tray:closed events it has sent.
NoClient ==
  [page |-> "none", loads |-> 0, matching |-> 0, read |-> 0,
   elementObservers |-> {}, domReadySent |-> FALSE, disposed |-> FALSE,
   readySeq |-> 0,
   elemId |-> "e1", attrs |-> [k \in AttrNames \ {"id"} |-> Null],
   tree |-> PageTree,
   eventListenersRef |-> {}, attached |-> {}, occurred |-> <<>>,
   triggered |-> <<>>, mutations |-> 0, mutatedAt |-> 0, cleanedAt |-> 0,
   open |-> FALSE, hasNavigated |-> FALSE, trayEvents |-> <<>>,
   traySent |-> <<>>]

\* The effect engine before any effect has run.  now is the clock in ticks,
\* count the engine's counter effectCount; sinceReset, thisTick and lastTick
\* are the effect executions since the last reset of the window, in the
\* current tick and in the tick before it.
NoEffects ==
  [now |-> 0, count |-> 0, sinceReset |-> 0, thisTick |-> 0, lastTick |-> 0]

\* UI.Register has been called once at most.
NoReRegister == [count |-> 0, prior |-> 0]

\* No plugin is loaded: no $os call has been made, no file accessed.
NoPlugin ==
  [plugin |-> "none", permissions |-> {}, calls |-> 0, reads |-> 0,
   writes |-> 0, last |-> "none"]

\* The nodes of the document: the page's elements (1 is the root, the
\* others are its children), then the hidden container of created elements,
\* then the created elements.
Container == PageNodes + 1

AllNodes == 1 .. (Container + MaxCreated)

\* No document is loaded.  ids is the id attribute of each node ("" when it
\* has none), uuids the number of ids generated; sent holds the descriptors
\* of the handler that ran last, before the ids when it started, first the
\* id under which each node was first sent, known the ids the plugin was
\* sent.
NoDocument ==
  [loaded |-> FALSE, nodes |-> {}, ids |-> [n \in AllNodes |-> ""],
   uuids |-> 0, created |-> 0, ops |-> 0, sent |-> {},
   before |-> [n \in AllNodes |-> ""], first |-> [n \in AllNodes |-> ""],
   known |-> {}]

\* ---------------------------------------------------------------- AppContext
\* The fields of AppContextModules that have an accessor in AppContext, named
\* as in AppContextModules; None is mo.None, Nil a nil field of the argument,
\* and a present option is modelled by the handle it holds.
ModuleFields == {"Database", "PlaybackManager", "MediaPlayerRepository",
                 "AnilistPlatform", "WSEventManager"}
Handles == {"h1", "h2"}
None == "none"
Nil == "nil"

\* NewAppContext: every option is absent (wsEventManager by its zero value).
\* calls counts the SetModulesPartial calls, modules is the argument of the
\* last one, replaced the fields whose present handle a call has replaced by
\* another.
NewAppContext ==
  [database |-> None, playbackManager |-> None, mediaplayerRepo |-> None,
   anilistPlatform |-> None, wsEventManager |-> None, calls |-> 0,
   modules |-> [f \in ModuleFields |-> Nil], replaced |-> {}]

\* The accessors Database(), PlaybackManager(), MediaPlayerRepository(),
\* AnilistPlatform() and WSEventManager().
Accessor(a, f) ==
  CASE f = "Database" -> a.database
    [] f = "PlaybackManager" -> a.playbackManager
    [] f = "MediaPlayerRepository" -> a.mediaplayerRepo
    [] f = "AnilistPlatform" -> a.anilistPlatform
    [] f = "WSEventManager" -> a.wsEventManager

\* A branch of SetModulesPartial that also clears the option on nil.
SetHandle_Clear(old, new) == IF new # Nil THEN new ELSE None

\* `if modules.X != nil { a.x = mo.Some(modules.X) }`.
SetHandle(old, new) == IF new # Nil THEN new ELSE old

\* SetModulesPartial: the branches for Database, PlaybackManager,
\* AnilistPlatform and WSEventManager; there is none for
\* MediaPlayerRepository.
SetModulesPartial(modules) ==
  /\ appContext.calls < MaxSetModules
  /\ appContext' =
       [appContext EXCEPT
          !.database = SetHandle(@, modules["Database"]),
          !.playbackManager = SetHandle(@, modules["PlaybackManager"]),
          !.anilistPlatform = SetHandle(@, modules["AnilistPlatform"]),
          !.wsEventManager = SetHandle(@, modules["WSEventManager"]),
          !.calls = @ + 1,
          !.modules = modules,
          !.replaced = @ \cup {f \in ModuleFields \ {"MediaPlayerRepository"} :
                                 /\ Accessor(appContext, f) # None
                                 /\ modules[f] # Nil
                                 /\ modules[f] # Accessor(appContext, f)}]
  /\ UNCHANGED <<regState, unloads, wsSubscriber, wsChannel, arrivals, loop,
                 listeners, jobQueue, worker, stopped, requests,
                 elementObservers, observers, onReadyCount, outbox,
                 trayRenders, skipped, client, unsubscribes,
                 domEventListeners, domEvents, exceptionCount, thrown,
                 interrupted, effect, reRegistered, os, dom>>

Init ==
  /\ regState = "none"
  /\ unloads = 0
  /\ wsSubscriber = "nil"
  /\ wsChannel = <<>>
  /\ arrivals = 0
  /\ loop = [IdleLoop EXCEPT !.pc = "none"]
  /\ listeners = <<>>
  /\ jobQueue = <<>>
  /\ worker = IdleWorker
  /\ stopped = FALSE
  /\ requests = <<>>
  /\ elementObservers = {}
  /\ observers = <<>>
  /\ onReadyCount = 0
  /\ outbox = <<>>
  /\ trayRenders = 0
  /\ skipped = 0
  /\ client = NoClient
  /\ unsubscribes = 0
  /\ domEventListeners = <<>>
  /\ domEvents = 0
  /\ exceptionCount = 0
  /\ thrown = 0
  /\ interrupted = FALSE
  /\ effect = NoEffects
  /\ reRegistered = NoReRegister
  /\ os = NoPlugin
  /\ dom = NoDocument
  /\ appContext = NewAppContext

\* ------------------------------------------------ Context (listener table)
\* RegisterEventListener: a new listener with its own bounded channel,
\* stored in the context's listener table.
NewEventListener(kind, ref) ==
  [kind |-> kind, ref |-> ref, registered |-> TRUE, chan |-> <<>>,
   closed |-> FALSE, pc |-> "wait", ev |-> NoEvent, placed |-> 0]

\* UnregisterEventListener: the listener leaves the listener table.
UnregisterEventListener(ls, l) == [ls EXCEPT ![l].registered = FALSE]

\* A task of the scheduler: what it does, for which request, observer or
\* listener, with which event.
Task(kind, ref, ev) == [kind |-> kind, ref |-> ref, ev |-> ev]

\* Scheduler.ScheduleAsync: the task joins the worker's FIFO queue; a task
\* enqueued after Stop() is dropped.
ScheduleAsync(q, task) == IF stopped THEN q ELSE Append(q, task)

\* Context.SendEventToClient.
SendEventToClient(out, type, id, action, elem) ==
  Append(out, ServerEvent(type, id, action, elem))

\* A listener registered while the dispatch loop ranges over the listener
\* table may or may not be visited by that Range.
LoopAfterRegister(ids, seen) ==
  IF loop.pc = "range" /\ seen
    THEN [loop EXCEPT !.todo = loop.todo \cup ids]
    ELSE loop

\* Script code is running and can call the bindings: the $ui.register
\* callback, or a callback invoked by a task of the worker.  The interrupt
\* flag of the VM terminates running script code.
ScriptRunning ==
  /\ ~interrupted
  /\ regState = "running" \/ worker.pc = "run"

\* ------------------------------------------------------------ UI.Register
\* Subscribes to client events, starts the dispatch goroutine and runs the
\* script's callback in the VM (u.vm.RunString) on the calling goroutine.
Register ==
  /\ regState = "none"
  /\ ~unloaded
  /\ regState' = "running"
  /\ wsSubscriber' = "open"
  /\ loop' = IdleLoop
  /\ UNCHANGED <<unloads, wsChannel, arrivals, listeners, jobQueue, worker,
                 stopped, requests, elementObservers, observers, onReadyCount,
                 outbox, trayRenders, skipped, client, unsubscribes,
                 domEventListeners, domEvents, exceptionCount, thrown,
                 interrupted, effect, reRegistered, os, dom, appContext>>

\* UI.Register called again on the same UI, after the first call returned:
\* it subscribes again under the same id (the new subscription replaces the
\* old one, whose goroutine waits on the old channel for ever), starts
\* another dispatch goroutine and runs the new callback.  The context and
\* its listener table are the ones NewUI created.
RegisterAgain ==
  /\ regState = "done"
  /\ ~unloaded
  /\ reRegistered.count < MaxRegister
  /\ loop.pc = "idle"
  /\ wsChannel = <<>>
  /\ regState' = "running"
  /\ wsSubscriber' = "open"
  /\ loop' = IdleLoop
  /\ reRegistered' = [count |-> reRegistered.count + 1, prior |-> Len(listeners)]
  /\ UNCHANGED <<unloads, wsChannel, arrivals, listeners, jobQueue, worker,
                 stopped, requests, elementObservers, observers, onReadyCount,
                 outbox, trayRenders, skipped, client, unsubscribes,
                 domEventListeners, domEvents, exceptionCount, thrown,
                 interrupted, effect, os, dom, appContext>>

\* The script's callback returns and UI.Register releases u.mu.
RegisterReturn ==
  /\ regState = "running"
  /\ regState' = "done"
  /\ UNCHANGED <<unloads, wsSubscriber, wsChannel, arrivals, loop, listeners,
                 jobQueue, worker, stopped, requests, elementObservers,
                 observers, onReadyCount, outbox, trayRenders, skipped,
                 client, unsubscribes, domEventListeners, domEvents,
                 exceptionCount, thrown, interrupted, effect, reRegistered,
                 os, dom, appContext>>

\* ------------------------------------------------- DOMManager (script side)
\* jsQuery, jsQueryOne, jsCreateElement, getElementText, getElementAttribute:
\* a fresh requestId, a listener for the result event, the request sent.
RequestAction(kind) ==
  CASE kind = "getText"      -> "getText"
    [] kind = "getAttribute" -> "getAttribute"
    [] OTHER                 -> ""

RequestElem(kind) == IF kind \in {"getText", "getAttribute"} THEN "e1" ELSE ""

JsRequest(kind) ==
  /\ ScriptRunning
  /\ ~unloaded
  /\ Len(requests) < MaxReq
  /\ LET requestId == Len(requests) + 1
         l == Len(listeners) + 1
     IN /\ requests' = Append(requests,
                         [kind |-> kind, elem |-> RequestElem(kind),
                          scheduled |-> 0, resolved |-> 0, value |-> Null])
        /\ listeners' = Append(listeners, NewEventListener(kind, requestId))
        /\ outbox' = SendEventToClient(outbox, RequestEvent(kind), requestId,
                                       RequestAction(kind), RequestElem(kind))
        /\ \E seen \in BOOLEAN : loop' = LoopAfterRegister({l}, seen)
  /\ UNCHANGED <<regState, unloads, wsSubscriber, wsChannel, arrivals,
                 jobQueue, worker, stopped, elementObservers, observers,
                 onReadyCount, trayRenders, skipped, client, unsubscribes,
                 domEventListeners, domEvents, exceptionCount, thrown,
                 interrupted, effect, reRegistered, os, dom, appContext>>

\* The setAttribute calls the script has made.
SetAttributeCalls ==
  Cardinality({i \in DOMAIN outbox : outbox[i].action = "setAttribute"})

\* setElementAttribute: H.setAttribute(name, value) sends the manipulation,
\* without a requestId, and returns.
JsSetAttribute(name, value) ==
  /\ ScriptRunning
  /\ ~unloaded
  /\ client.page = "open"
  /\ SetAttributeCalls < MaxSet
  /\ outbox' = Append(outbox,
                  [ServerEvent(ServerDOMManipulateEvent, 0, "setAttribute", "e1")
                     EXCEPT !.name = name, !.value = value])
  /\ UNCHANGED <<regState, unloads, wsSubscriber, wsChannel, arrivals, loop,
                 listeners, jobQueue, worker, stopped, requests,
                 elementObservers, observers, onReadyCount, trayRenders,
                 skipped, client, unsubscribes, domEventListeners, domEvents,
                 exceptionCount, thrown, interrupted, effect, reRegistered,
                 os, dom, appContext>>

\* getElementAttribute: H.getAttribute(name) registers the listener for
\* dom:elementUpdated, sends the manipulation with a fresh requestId and
\* returns the promise.
JsGetAttribute(name) ==
  /\ ScriptRunning
  /\ ~unloaded
  /\ client.page = "open"
  /\ Len(requests) < MaxReq
  /\ LET requestId == Len(requests) + 1
         l == Len(listeners) + 1
     IN /\ requests' = Append(requests,
                         [kind |-> "getAttribute", elem |-> "e1",
                          scheduled |-> 0, resolved |-> 0, value |-> Null])
        /\ listeners' = Append(listeners, NewEventListener("getAttribute", requestId))
        /\ outbox' = Append(outbox,
                        [ServerEvent(ServerDOMManipulateEvent, requestId,
                                     "getAttribute", "e1")
                           EXCEPT !.name = name])
        /\ \E seen \in BOOLEAN : loop' = LoopAfterRegister({l}, seen)
  /\ UNCHANGED <<regState, unloads, wsSubscriber, wsChannel, arrivals,
                 jobQueue, worker, stopped, elementObservers, observers,
                 onReadyCount, trayRenders, skipped, client, unsubscribes,
                 domEventListeners, domEvents, exceptionCount, thrown,
                 interrupted, effect, reRegistered, os, dom, appContext>>

\* The params appendElement, insertElementBefore and insertElementAfter
\* send: the id of the other element under the key "childID" or "siblingID".
TreeParams(op, id) ==
  IF op = "append" THEN [k \in {"childID"} |-> id]
                   ELSE [k \in {"siblingID"} |-> id]

\* H.append(child), H.before(sibling), H.after(sibling): the manipulation is
\* sent with the id of the other handle in the params; nothing is awaited.
JsTreeOp(op, elem, other) ==
  /\ ScriptRunning
  /\ ~unloaded
  /\ client.page = "open"
  /\ op \in TreeOps
  /\ outbox' = Append(outbox,
                  [params |-> TreeParams(op, other)] @@
                  ServerEvent(ServerDOMManipulateEvent, 0, op, elem))
  /\ UNCHANGED <<regState, unloads, wsSubscriber, wsChannel, arrivals, loop,
                 listeners, jobQueue, worker, stopped, requests,
                 elementObservers, observers, onReadyCount, trayRenders,
                 skipped, client, unsubscribes, domEventListeners, domEvents,
                 exceptionCount, thrown, interrupted, effect, reRegistered,
                 os, dom, appContext>>

\* The action of the dom:manipulate event of a nested query.
NestedAction(kind) == IF kind = "elementQuery" THEN "query" ELSE "queryOne"

\* elementQuery, elementQueryOne: H.query(selector) and H.queryOne(selector)
\* register the listener for dom:queryResult (dom:queryOneResult) and send
\* the manipulation "query" ("queryOne") of the handle's element; the fresh
\* requestId travels in the params, the payload's RequestID stays empty.
JsElementQuery(kind) ==
  /\ ScriptRunning
  /\ ~unloaded
  /\ client.page = "open"
  /\ kind \in NestedKinds
  /\ Len(requests) < MaxReq
  /\ LET requestId == Len(requests) + 1
         l == Len(listeners) + 1
     IN /\ requests' = Append(requests,
                         [kind |-> kind, elem |-> "e1",
                          scheduled |-> 0, resolved |-> 0, value |-> Null])
        /\ listeners' = Append(listeners, NewEventListener(kind, requestId))
        /\ outbox' = Append(outbox,
                        [paramsRequestId |-> requestId] @@
                        ServerEvent(ServerDOMManipulateEvent, 0,
                                    NestedAction(kind), "e1"))
        /\ \E seen \in BOOLEAN : loop' = LoopAfterRegister({l}, seen)
  /\ UNCHANGED <<regState, unloads, wsSubscriber, wsChannel, arrivals,
                 jobQueue, worker, stopped, elementObservers, observers,
                 onReadyCount, trayRenders, skipped, client, unsubscribes,
                 domEventListeners, domEvents, exceptionCount, thrown,
                 interrupted, effect, reRegistered, os, dom, appContext>>

\* DOM event types.
DomEventTypes == {"click"}

\* addElementEventListener: stores the listener under a fresh listener id
\* and asks the client to attach it.
JsAddEventListener(elem, event) ==
  /\ ScriptRunning
  /\ ~unloaded
  /\ Len(domEventListeners) < MaxDomListeners
  /\ LET listenerID == Len(domEventListeners) + 1
     IN /\ domEventListeners' =
             Append(domEventListeners,
                    [elem |-> elem, event |-> event, stored |-> TRUE, calls |-> 0])
        /\ outbox' = Append(outbox,
                        [params |-> [event |-> event, listenerID |-> listenerID]] @@
                        ServerEvent(ServerDOMManipulateEvent, 0, "addEventListener", elem))
  /\ UNCHANGED <<regState, unloads, wsSubscriber, wsChannel, arrivals, loop,
                 listeners, jobQueue, worker, stopped, requests,
                 elementObservers, observers, onReadyCount, trayRenders,
                 skipped, client, unsubscribes, domEvents, exceptionCount,
                 thrown, interrupted, effect, reRegistered, os, dom,
                 appContext>>

\* The function addElementEventListener returns: the listener is deleted
\* from d.eventListeners and the client is asked to detach it.
JsRemoveEventListener(l) ==
  /\ ScriptRunning
  /\ ~unloaded
  /\ l \in DOMAIN domEventListeners
  /\ domEventListeners[l].stored
  /\ domEventListeners' = [domEventListeners EXCEPT ![l].stored = FALSE]
  /\ outbox' = Append(outbox,
                  [params |-> [event |-> domEventListeners[l].event, listenerID |-> l]] @@
                  ServerEvent(ServerDOMManipulateEvent, 0, "removeEventListener",
                              domEventListeners[l].elem))
  /\ UNCHANGED <<regState, unloads, wsSubscriber, wsChannel, arrivals, loop,
                 listeners, jobQueue, worker, stopped, requests,
                 elementObservers, observers, onReadyCount, trayRenders,
                 skipped, client, unsubscribes, domEvents, exceptionCount,
                 thrown, interrupted, effect, reRegistered, os, dom,
                 appContext>>

\* The Range of HandleDOMEvent over d.eventListeners up to listener l: a task
\* is scheduled for every stored listener of the element and event type.
RECURSIVE ScheduleDOMEvent(_, _, _, _)
ScheduleDOMEvent(q, l, elem, event) ==
  IF l = 0 THEN q
  ELSE LET before == ScheduleDOMEvent(q, l - 1, elem, event)
       IN IF /\ domEventListeners[l].stored
             /\ domEventListeners[l].elem = elem
             /\ domEventListeners[l].event = event
            THEN ScheduleAsync(before, Task("domEvent", l, NoEvent))
            ELSE before

\* The body of HandleDOMEvent.
HandleDOMEventSteps(elem, event) ==
  /\ domEvents < MaxDomEvents
  /\ domEvents' = domEvents + 1
  /\ jobQueue' = ScheduleDOMEvent(jobQueue, Len(domEventListeners), elem, event)
  /\ UNCHANGED <<regState, unloads, wsSubscriber, wsChannel, arrivals, loop,
                 listeners, worker, stopped, requests, elementObservers,
                 observers, onReadyCount, outbox, trayRenders, skipped,
                 unsubscribes, domEventListeners, exceptionCount, thrown,
                 interrupted, effect, reRegistered, os, dom, appContext>>

\* HandleDOMEvent: a DOM event of the client is handed to the DOM manager.
HandleDOMEvent(elem, event) ==
  /\ HandleDOMEventSteps(elem, event)
  /\ UNCHANGED client

\* A dom:event message of the client arrives: the DOM manager's
\* HandleDOMEvent is called with its elementId and eventType.
DOMEventTriggered ==
  /\ client.triggered # <<>>
  /\ HandleDOMEventSteps(Head(client.triggered).elem, Head(client.triggered).event)
  /\ client' = [client EXCEPT !.triggered = Tail(@)]

\* jsObserve: stores the observer, sends dom:observe, registers the
\* observeResult listener and the dom:ready listener, registers the cleanup.
JsObserve ==
  /\ ScriptRunning
  /\ ~unloaded
  /\ Len(observers) < MaxObs
  /\ LET observerID == Len(observers) + 1
         l == Len(listeners) + 1
     IN /\ observers' = Append(observers,
                          [cancelled |-> FALSE, cancelCalls |-> 0, calls |-> <<>>,
                           readies |-> 0, readySeq |-> 0,
                           calledReturn |-> FALSE])
        /\ elementObservers' = elementObservers \cup {observerID}
        /\ outbox' = SendEventToClient(outbox, ServerDOMObserveEvent, observerID, "", "")
        /\ listeners' = listeners \o <<NewEventListener("observeResult", observerID),
                                       NewEventListener("observeReady", observerID)>>
        /\ \E seen \in SUBSET {l, l + 1} :
             loop' = LoopAfterRegister(seen, TRUE)
  /\ UNCHANGED <<regState, unloads, wsSubscriber, wsChannel, arrivals,
                 jobQueue, worker, stopped, requests, onReadyCount,
                 trayRenders, skipped, client, unsubscribes,
                 domEventListeners, domEvents, exceptionCount, thrown,
                 interrupted, effect, reRegistered, os, dom, appContext>>

\* cancelFn of jsObserve, in its three effects.
CancelFnListeners(ls, o) ==
  [l \in DOMAIN ls |->
     IF ls[l].ref = o /\ ls[l].kind \in {"observeResult", "observeReady"}
       THEN [ls[l] EXCEPT !.registered = FALSE]
       ELSE ls[l]]

\* CancelFnObservers without the Delete of the observer.
CancelFnObservers_Keep(obs, o) == obs

CancelFnObservers(obs, o) == obs \ {o}

CancelFnEvents(out, o) ==
  SendEventToClient(out, ServerDOMStopObserveEvent, o, "", "")

\* The script calls the cancel function returned by ctx.dom.observe.
ScriptCancel(o) ==
  /\ ScriptRunning
  /\ ~unloaded
  /\ o \in DOMAIN observers
  /\ observers[o].cancelCalls < MaxCancel
  /\ listeners' = CancelFnListeners(listeners, o)
  /\ elementObservers' = CancelFnObservers(elementObservers, o)
  /\ outbox' = CancelFnEvents(outbox, o)
  /\ observers' = [observers EXCEPT ![o].cancelled = TRUE,
                                    ![o].cancelCalls = @ + 1]
  /\ UNCHANGED <<regState, unloads, wsSubscriber, wsChannel, arrivals, loop,
                 jobQueue, worker, stopped, requests, onReadyCount,
                 trayRenders, skipped, client, unsubscribes,
                 domEventListeners, domEvents, exceptionCount, thrown,
                 interrupted, effect, reRegistered, os, dom, appContext>>

\* The value jsObserve returns to the script: the array of cancelFn and
\* refetchFn (vm.ToValue of a slice), which is not callable.
JsObserveReturn ==
  [callable |-> FALSE, elems |-> <<"cancelFn", "refetchFn">>]

\* The script calls the value returned by ctx.dom.observe as a function:
\* a callable runs, anything else is a TypeError and nothing is done.
ScriptCallReturned(o) ==
  /\ ScriptRunning
  /\ ~unloaded
  /\ o \in DOMAIN observers
  /\ ~observers[o].calledReturn
  /\ IF JsObserveReturn.callable
       THEN /\ listeners' = CancelFnListeners(listeners, o)
            /\ elementObservers' = CancelFnObservers(elementObservers, o)
            /\ outbox' = CancelFnEvents(outbox, o)
            /\ observers' = [observers EXCEPT ![o].cancelled = TRUE,
                                              ![o].calledReturn = TRUE]
       ELSE /\ observers' = [observers EXCEPT ![o].calledReturn = TRUE]
            /\ UNCHANGED <<listeners, elementObservers, outbox>>
  /\ UNCHANGED <<regState, unloads, wsSubscriber, wsChannel, arrivals, loop,
                 jobQueue, worker, stopped, requests, onReadyCount,
                 trayRenders, skipped, client, unsubscribes,
                 domEventListeners, domEvents, exceptionCount, thrown,
                 interrupted, effect, reRegistered, os, dom, appContext>>

\* jsOnReady: a listener for dom:ready.
JsOnReady ==
  /\ ScriptRunning
  /\ ~unloaded
  /\ onReadyCount < MaxOnReady
  /\ onReadyCount' = onReadyCount + 1
  /\ listeners' = Append(listeners, NewEventListener("onReady", 0))
  /\ \E seen \in BOOLEAN : loop' = LoopAfterRegister({Len(listeners) + 1}, seen)
  /\ UNCHANGED <<regState, unloads, wsSubscriber, wsChannel, arrivals,
                 jobQueue, worker, stopped, requests, elementObservers,
                 observers, outbox, trayRenders, skipped, client,
                 unsubscribes, domEventListeners, domEvents, exceptionCount,
                 thrown, interrupted, effect, reRegistered, os, dom,
                 appContext>>

\* ------------------------------------------- UI.Register (dispatch goroutine)
\* Accepted without the test of the extension id.
Accepted_Any(ev) == TRUE

\* The extension id test of the dispatch loop.
Accepted(ev) == ev.ext = Empty \/ ev.ext = Self

\* IsTrayEvent without the case of ClientRenderTrayEvent.
IsTrayEvent_OnlyTrays(ev) == ev.type = ClientRenderTraysEvent

\* The cases of the dispatch loop's switch that render the tray.
IsTrayEvent(ev) == ev.type \in {ClientRenderTraysEvent, ClientRenderTrayEvent}

\* NextClientEvent taking the newest event instead of the oldest.
NextClientEvent_Last(ch) == ch[Len(ch)]

\* The event the loop takes from the subscriber channel.
NextClientEvent(ch) == Head(ch)

\* for event := range u.context.wsSubscriber.Channel: the next event is
\* received; an event for another extension is skipped, a tray event renders
\* the tray, any other event starts a Range over the listener table.
LoopReceive ==
  /\ loop.pc = "idle"
  /\ wsChannel # <<>>
  /\ LET ev == NextClientEvent(wsChannel)
         ranged == Accepted(ev) /\ ~IsTrayEvent(ev)
     IN /\ wsChannel' = SelectSeq(wsChannel, LAMBDA e : e # ev)
        /\ skipped' = IF Accepted(ev) THEN skipped ELSE skipped + 1
        /\ trayRenders' = IF Accepted(ev) /\ IsTrayEvent(ev)
                            THEN trayRenders + 1 ELSE trayRenders
        /\ loop' = IF ranged
                     THEN [pc |-> "range", ev |-> ev, todo |-> Registered,
                           cur |-> 0, sends |-> 0]
                     ELSE loop
        /\ observers' =
             [o \in DOMAIN observers |->
                IF ranged /\ ev.type = ClientDOMReadyEvent /\ o \in elementObservers
                  THEN [observers[o] EXCEPT !.readies = @ + 1, !.readySeq = ev.seq]
                  ELSE observers[o]]
  /\ UNCHANGED <<regState, unloads, wsSubscriber, arrivals, listeners,
                 jobQueue, worker, stopped, requests, elementObservers,
                 onReadyCount, outbox, client, unsubscribes,
                 domEventListeners, domEvents, exceptionCount, thrown,
                 interrupted, effect, reRegistered, os, dom, appContext>>

\* The filter of the Range callback: a listener with a filter list gets the
\* event when its type is in the list, a listener with an empty list gets
\* every event.
ListenerWants(l, ev) ==
  IF ListenTo(listeners[l].kind) # ""
    THEN ListenTo(listeners[l].kind) = ev.type
    ELSE TRUE

\* The sends of the Range callback to one listener: one for every entry of
\* its filter list that equals the event's type, one when the list is empty.
ListenerSends_IgnoreFilter(l, ev) == 1

ListenerSends(l, ev) ==
  LET list == FilterList(listeners[l].kind)
  IN IF Len(list) > 0
       THEN Cardinality({i \in DOMAIN list : list[i] = ev.type})
       ELSE 1

\* One iteration of eventListeners.Range.  A listener that was unregistered
\* since the Range began may or may not still be visited.
LoopVisit(l) ==
  /\ loop.pc = "range"
  /\ l \in loop.todo
  /\ \E visited \in BOOLEAN :
       /\ listeners[l].registered => visited
       /\ IF visited /\ ListenerSends(l, loop.ev) > 0
            THEN loop' = [loop EXCEPT !.pc = "send", !.cur = l,
                                      !.sends = ListenerSends(l, loop.ev),
                                      !.todo = loop.todo \ {l}]
            ELSE loop' = [loop EXCEPT !.todo = loop.todo \ {l}]
  /\ UNCHANGED <<regState, unloads, wsSubscriber, wsChannel, arrivals,
                 listeners, jobQueue, worker, stopped, requests,
                 elementObservers, observers, onReadyCount, outbox,
                 trayRenders, skipped, client, unsubscribes,
                 domEventListeners, domEvents, exceptionCount, thrown,
                 interrupted, effect, reRegistered, os, dom, appContext>>

\* The channel of a listener after an event was sent on it.
ChannelSend(ch, ev) == Append(ch, ev)

\* ChannelReady for a send that never waits for room.
ChannelReady_Always(ch) == TRUE

\* A send on the channel can proceed: the channel has room.
ChannelReady(ch) == Len(ch) < ChanCap

\* listener.Channel <- clientEvent: blocks while the channel is full.
LoopSend ==
  /\ loop.pc = "send"
  /\ ChannelReady(listeners[loop.cur].chan)
  /\ listeners' = [listeners EXCEPT
                     ![loop.cur].chan = ChannelSend(@, loop.ev),
                     ![loop.cur].placed = loop.ev.seq]
  /\ loop' = IF loop.sends > 1
               THEN [loop EXCEPT !.sends = @ - 1]
               ELSE [loop EXCEPT !.pc = "range", !.cur = 0, !.sends = 0]
  /\ UNCHANGED <<regState, unloads, wsSubscriber, wsChannel, arrivals,
                 jobQueue, worker, stopped, requests, elementObservers,
                 observers, onReadyCount, outbox, trayRenders, skipped,
                 client, unsubscribes, domEventListeners, domEvents,
                 exceptionCount, thrown, interrupted, effect, reRegistered,
                 os, dom, appContext>>

\* The Range is over; the loop waits for the next event.
LoopDone ==
  /\ loop.pc = "range"
  /\ loop.todo = {}
  /\ loop' = IdleLoop
  /\ UNCHANGED <<regState, unloads, wsSubscriber, wsChannel, arrivals,
                 listeners, jobQueue, worker, stopped, requests,
                 elementObservers, observers, onReadyCount, outbox,
                 trayRenders, skipped, client, unsubscribes,
                 domEventListeners, domEvents, exceptionCount, thrown,
                 interrupted, effect, reRegistered, os, dom, appContext>>

\* eventListeners.Range with close(listener.Channel) closing no channel.
CloseListenerChannels_None(ls) == ls

\* eventListeners.Range with close(listener.Channel): the channel of every
\* listener in the table is closed.  An unregistration only takes a listener
\* out of the table, so a Range interleaved with unregistrations closes what
\* this one does with the unregistrations before or after it.
CloseListenerChannels(ls) ==
  [l \in DOMAIN ls |->
     IF ls[l].registered THEN [ls[l] EXCEPT !.closed = TRUE] ELSE ls[l]]

\* The subscriber channel was closed and is drained: the loop ends and the
\* goroutine closes the channel of every listener in the table.
LoopExit ==
  /\ loop.pc = "idle"
  /\ wsChannel = <<>>
  /\ wsSubscriber = "closed"
  /\ loop' = [IdleLoop EXCEPT !.pc = "exited"]
  /\ listeners' = CloseListenerChannels(listeners)
  /\ UNCHANGED <<regState, unloads, wsSubscriber, wsChannel, arrivals,
                 jobQueue, worker, stopped, requests, elementObservers,
                 observers, onReadyCount, outbox, trayRenders, skipped,
                 client, unsubscribes, domEventListeners, domEvents,
                 exceptionCount, thrown, interrupted, effect, reRegistered,
                 os, dom, appContext>>

\* --------------------------------------------- EventListener (its goroutine)
\* SetCallback: the listener's goroutine receives the next event of its
\* channel and calls the callback with it.
ListenerReceive(l) ==
  /\ l \in DOMAIN listeners
  /\ listeners[l].pc = "wait"
  /\ listeners[l].chan # <<>>
  /\ listeners' = [listeners EXCEPT ![l].pc = "cb",
                                    ![l].ev = Head(listeners[l].chan),
                                    ![l].chan = Tail(@)]
  /\ UNCHANGED <<regState, unloads, wsSubscriber, wsChannel, arrivals, loop,
                 jobQueue, worker, stopped, requests, elementObservers,
                 observers, onReadyCount, outbox, trayRenders, skipped,
                 client, unsubscribes, domEventListeners, domEvents,
                 exceptionCount, thrown, interrupted, effect, reRegistered,
                 os, dom, appContext>>

\* ReplyMatches without the test of the requestId.
ReplyMatches_AnyRequestId(kind, requestId, ev) ==
  /\ ev.type = ListenTo(kind)
  /\ kind \in {"getText", "getAttribute"} =>
       /\ ev.action = RequestAction(kind)
       /\ ev.elem = requests[requestId].elem

\* event.ParsePayloadAs(type, &payload) and the tests of the callbacks of
\* jsQuery, jsQueryOne, jsCreateElement, getElementText, getElementAttribute.
ReplyMatches(kind, requestId, ev) ==
  /\ ev.type = ListenTo(kind)
  /\ ev.id = requestId
  /\ kind \in {"getText", "getAttribute"} =>
       /\ ev.action = RequestAction(kind)
       /\ ev.elem = requests[requestId].elem

\* Whether the callback schedules the resolve task: jsCreateElement only
\* does when the payload's element is an object.
ReplyResolves(kind, ev) == kind = "create" => ev.ok

\* The listener's goroutine is back at its channel.
CallbackReturn(ls, l) == [ls EXCEPT ![l].pc = "wait", ![l].ev = NoEvent]

\* RequestScheduled resolving the promise in the listener's callback itself.
RequestScheduled_ResolvedInCallback(reqs, requestId) ==
  [reqs EXCEPT ![requestId].resolved = @ + 1]

\* What the callback does to the request: nothing in the VM; the resolution
\* is in the task handed to ScheduleAsync, which the request records.
RequestScheduled(reqs, requestId) ==
  IF stopped THEN reqs ELSE [reqs EXCEPT ![requestId].scheduled = @ + 1]

\* The callback of a request's listener: on the matching reply it schedules
\* the task that resolves the promise and unregisters the listener.
RequestCallback(l) ==
  /\ l \in DOMAIN listeners
  /\ listeners[l].pc = "cb"
  /\ listeners[l].kind \in ReqKinds \cup NestedKinds
  /\ LET kind == listeners[l].kind
         requestId == listeners[l].ref
         ev == listeners[l].ev
     IN IF ReplyMatches(kind, requestId, ev)
          THEN /\ listeners' = UnregisterEventListener(CallbackReturn(listeners, l), l)
               /\ IF ReplyResolves(kind, ev)
                    THEN /\ jobQueue' = ScheduleAsync(jobQueue, Task("resolve", requestId, ev))
                         /\ requests' = RequestScheduled(requests, requestId)
                    ELSE UNCHANGED <<jobQueue, requests>>
          ELSE /\ listeners' = CallbackReturn(listeners, l)
               /\ UNCHANGED <<jobQueue, requests>>
  /\ UNCHANGED <<regState, unloads, wsSubscriber, wsChannel, arrivals, loop,
                 worker, stopped, elementObservers, observers, onReadyCount,
                 outbox, trayRenders, skipped, client, unsubscribes,
                 domEventListeners, domEvents, exceptionCount, thrown,
                 interrupted, effect, reRegistered, os, dom, appContext>>

\* The callback of jsObserve's observeResult listener.
ObserveResultCallback(l) ==
  /\ l \in DOMAIN listeners
  /\ listeners[l].pc = "cb"
  /\ listeners[l].kind = "observeResult"
  /\ listeners' = CallbackReturn(listeners, l)
  /\ jobQueue' = IF /\ listeners[l].ev.type = ClientDOMObserveResultEvent
                    /\ listeners[l].ev.id = listeners[l].ref
                   THEN ScheduleAsync(jobQueue, Task("observe", listeners[l].ref, listeners[l].ev))
                   ELSE jobQueue
  /\ UNCHANGED <<regState, unloads, wsSubscriber, wsChannel, arrivals, loop,
                 worker, stopped, requests, elementObservers, observers,
                 onReadyCount, outbox, trayRenders, skipped, client,
                 unsubscribes, domEventListeners, domEvents, exceptionCount,
                 thrown, interrupted, effect, reRegistered, os, dom,
                 appContext>>

\* What the dom:ready listener of jsObserve does with itself after it has
\* re-sent the observe request.
DomReadyListenerAfter(ls, l) == UnregisterEventListener(ls, l)

\* The callback of jsObserve's dom:ready listener.
ObserveReadyCallback(l) ==
  /\ l \in DOMAIN listeners
  /\ listeners[l].pc = "cb"
  /\ listeners[l].kind = "observeReady"
  /\ outbox' = SendEventToClient(outbox, ServerDOMObserveEvent, listeners[l].ref, "", "")
  /\ listeners' = DomReadyListenerAfter(CallbackReturn(listeners, l), l)
  /\ UNCHANGED <<regState, unloads, wsSubscriber, wsChannel, arrivals, loop,
                 jobQueue, worker, stopped, requests, elementObservers,
                 observers, onReadyCount, trayRenders, skipped, client,
                 unsubscribes, domEventListeners, domEvents, exceptionCount,
                 thrown, interrupted, effect, reRegistered, os, dom,
                 appContext>>

\* The callback of jsOnReady's listener.
OnReadyCallback(l) ==
  /\ l \in DOMAIN listeners
  /\ listeners[l].pc = "cb"
  /\ listeners[l].kind = "onReady"
  /\ jobQueue' = ScheduleAsync(jobQueue, Task("onReady", 0, listeners[l].ev))
  /\ listeners' = UnregisterEventListener(CallbackReturn(listeners, l), l)
  /\ UNCHANGED <<regState, unloads, wsSubscriber, wsChannel, arrivals, loop,
                 worker, stopped, requests, elementObservers, observers,
                 onReadyCount, outbox, trayRenders, skipped, client,
                 unsubscribes, domEventListeners, domEvents, exceptionCount,
                 thrown, interrupted, effect, reRegistered, os, dom,
                 appContext>>

\* RegisterEventListener with no event types: a listener for every event.
RegisterEventListenerAll ==
  /\ regState # "none"
  /\ ~unloaded
  /\ Cardinality({l \in DOMAIN listeners : listeners[l].kind = "all"}) < MaxAllListeners
  /\ listeners' = Append(listeners, NewEventListener("all", 0))
  /\ \E seen \in BOOLEAN : loop' = LoopAfterRegister({Len(listeners) + 1}, seen)
  /\ UNCHANGED <<regState, unloads, wsSubscriber, wsChannel, arrivals,
                 jobQueue, worker, stopped, requests, elementObservers,
                 observers, onReadyCount, outbox, trayRenders, skipped,
                 client, unsubscribes, domEventListeners, domEvents,
                 exceptionCount, thrown, interrupted, effect, reRegistered,
                 os, dom, appContext>>

\* RegisterEventListener with several event types.
RegisterEventListenerFor(kind) ==
  /\ regState # "none"
  /\ ~unloaded
  /\ kind \in FilterKinds
  /\ Cardinality({l \in DOMAIN listeners : listeners[l].kind = kind}) < MaxAllListeners
  /\ listeners' = Append(listeners, NewEventListener(kind, 0))
  /\ \E seen \in BOOLEAN : loop' = LoopAfterRegister({Len(listeners) + 1}, seen)
  /\ UNCHANGED <<regState, unloads, wsSubscriber, wsChannel, arrivals,
                 jobQueue, worker, stopped, requests, elementObservers,
                 observers, onReadyCount, outbox, trayRenders, skipped,
                 client, unsubscribes, domEventListeners, domEvents,
                 exceptionCount, thrown, interrupted, effect, reRegistered,
                 os, dom, appContext>>

\* The callback of a listener with several event types returns.
FilterCallback(l) ==
  /\ l \in DOMAIN listeners
  /\ listeners[l].pc = "cb"
  /\ listeners[l].kind \in FilterKinds
  /\ listeners' = CallbackReturn(listeners, l)
  /\ UNCHANGED <<regState, unloads, wsSubscriber, wsChannel, arrivals, loop,
                 jobQueue, worker, stopped, requests, elementObservers,
                 observers, onReadyCount, outbox, trayRenders, skipped,
                 client, unsubscribes, domEventListeners, domEvents,
                 exceptionCount, thrown, interrupted, effect, reRegistered,
                 os, dom, appContext>>

\* The callback of a listener for every event returns.
AllCallback(l) ==
  /\ l \in DOMAIN listeners
  /\ listeners[l].pc = "cb"
  /\ listeners[l].kind = "all"
  /\ listeners' = CallbackReturn(listeners, l)
  /\ UNCHANGED <<regState, unloads, wsSubscriber, wsChannel, arrivals, loop,
                 jobQueue, worker, stopped, requests, elementObservers,
                 observers, onReadyCount, outbox, trayRenders, skipped,
                 client, unsubscribes, domEventListeners, domEvents,
                 exceptionCount, thrown, interrupted, effect, reRegistered,
                 os, dom, appContext>>

\* ------------------------------------------------------ Scheduler (worker)
\* The test at the head of the observer task: the task returns at once when
\* the observer is no longer in d.elementObservers.
ObserverExists(t) == t.kind = "observe" => t.ref \in elementObservers

\* The single worker takes the next task of the queue and starts it.
WorkerStart ==
  /\ worker.pc = "idle"
  /\ ~stopped
  /\ jobQueue # <<>>
  /\ jobQueue' = Tail(jobQueue)
  /\ worker' = IF ObserverExists(Head(jobQueue))
                 THEN [pc |-> "task", task |-> Head(jobQueue)]
                 ELSE worker
  /\ UNCHANGED <<regState, unloads, wsSubscriber, wsChannel, arrivals, loop,
                 listeners, stopped, requests, elementObservers, observers,
                 onReadyCount, outbox, trayRenders, skipped, client,
                 unsubscribes, domEventListeners, domEvents, exceptionCount,
                 thrown, interrupted, effect, reRegistered, os, dom,
                 appContext>>

\* The results of a dom:elementUpdated payload that are strings.
StringResults == AttrValues \cup {"text", "true", ""}

\* The value the promise is resolved with: getElementText resolves with the
\* result when it is a string and with "" when it is not; getElementAttribute
\* resolves with the result as it is.
ResolvedValue(kind, result) ==
  IF kind = "getText"
    THEN IF result \in StringResults THEN result ELSE ""
    ELSE result

\* createDOMElementObject: the handle gets the id and the tagName of the
\* descriptor, every attribute of the descriptor as a property of its own,
\* and the descriptor's children.
CreateDOMElementObject(elemData) ==
  [id |-> elemData.id, tagName |-> elemData.tagName,
   children |-> elemData.children] @@ elemData.attributes

\* What the task of a request resolves its promise with: jsQueryOne resolves
\* with the handle made from the payload's element, with null when the
\* payload has none; the element requests resolve with the result.
ResolvedWith(kind, ev) ==
  IF kind = "queryOne"
    THEN IF "element" \in DOMAIN ev THEN CreateDOMElementObject(ev.element)
                                     ELSE Null
    ELSE ResolvedValue(kind, ev.result)

\* The task enters the script: resolve(...) of the request's promise, or the
\* call of the observer's callback with the elements of the event, or of
\* the onReady callback.
WorkerInvoke ==
  /\ worker.pc = "task"
  /\ worker' = [worker EXCEPT !.pc = "run"]
  /\ requests' = IF worker.task.kind = "resolve"
                   THEN [requests EXCEPT ![worker.task.ref].resolved = @ + 1,
                                         ![worker.task.ref].value =
                                            ResolvedWith(requests[worker.task.ref].kind,
                                                         worker.task.ev)]
                   ELSE requests
  /\ observers' = IF worker.task.kind = "observe"
                    THEN [observers EXCEPT ![worker.task.ref].calls =
                           Append(@, [n |-> worker.task.ev.n, seq |-> worker.task.ev.seq])]
                    ELSE observers
  /\ domEventListeners' =
       IF worker.task.kind = "domEvent"
         THEN [domEventListeners EXCEPT ![worker.task.ref].calls = @ + 1]
         ELSE domEventListeners
  /\ UNCHANGED <<regState, unloads, wsSubscriber, wsChannel, arrivals, loop,
                 listeners, jobQueue, stopped, elementObservers, onReadyCount,
                 outbox, trayRenders, skipped, client, unsubscribes,
                 domEvents, exceptionCount, thrown, interrupted, effect,
                 reRegistered, os, dom, appContext>>

\* The script returns and the worker leaves the VM.
WorkerFinish ==
  /\ worker.pc = "run"
  /\ worker' = IdleWorker
  /\ UNCHANGED <<regState, unloads, wsSubscriber, wsChannel, arrivals, loop,
                 listeners, jobQueue, stopped, requests, elementObservers,
                 observers, onReadyCount, outbox, trayRenders, skipped,
                 client, unsubscribes, domEventListeners, domEvents,
                 exceptionCount, thrown, interrupted, effect, reRegistered,
                 os, dom, appContext>>

\* TaskReportsError for tasks that drop the error of the callback.
TaskReportsError_Never(t) == FALSE

\* The task reports the error its callback returned: if err != nil the
\* tasks of jsObserve, jsOnReady and HandleDOMEvent call handleException.
TaskReportsError(t) == t.kind \in {"observe", "onReady", "domEvent"}

\* Context.handleException: the exception is counted; exceeding
\* MAX_EXCEPTIONS interrupts the VM and stops the scheduler.
HandleException ==
  /\ exceptionCount' = exceptionCount + 1
  /\ IF exceptionCount + 1 > MAX_EXCEPTIONS
       THEN /\ interrupted' = TRUE
            /\ stopped' = TRUE
            /\ jobQueue' = <<>>
       ELSE UNCHANGED <<interrupted, stopped, jobQueue>>

\* The script callback the task invoked throws: the call returns an error.
WorkerThrow ==
  /\ worker.pc = "run"
  /\ worker.task.kind \in {"observe", "onReady", "domEvent"}
  /\ worker' = IdleWorker
  /\ thrown' = thrown + 1
  /\ IF TaskReportsError(worker.task)
       THEN HandleException
       ELSE UNCHANGED <<exceptionCount, interrupted, stopped, jobQueue>>
  /\ UNCHANGED <<regState, unloads, wsSubscriber, wsChannel, arrivals, loop,
                 listeners, requests, elementObservers, observers,
                 onReadyCount, outbox, trayRenders, skipped, client,
                 unsubscribes, domEventListeners, domEvents, effect,
                 reRegistered, os, dom, appContext>>

\* ---------------------------------------------------------- effect engine
\* The length of the reset window in ticks.
ResetInterval == RESET_EFFECT_CALLBACK_INTERVAL * TicksPerSecond

\* EffectAllowed without the budget.
EffectAllowed_Always(count) == TRUE

\* The budget test: an effect may execute while fewer than
\* MAX_EFFECT_CALLBACKS have executed since the last reset.
EffectAllowed(count) == count < MAX_EFFECT_CALLBACKS

\* An effect is due: it executes if the budget allows it; otherwise the
\* budget is exceeded and the VM is interrupted.
EffectRun ==
  /\ regState # "none"
  /\ ~interrupted
  /\ IF EffectAllowed(effect.count)
       THEN /\ effect.sinceReset <= MAX_EFFECT_CALLBACKS   \* cap of the record
            /\ effect' = [effect EXCEPT !.count = @ + 1,
                                        !.sinceReset = @ + 1,
                                        !.thisTick = @ + 1]
            /\ UNCHANGED <<interrupted, stopped, jobQueue>>
       ELSE /\ interrupted' = TRUE
            /\ stopped' = TRUE
            /\ jobQueue' = <<>>
            /\ UNCHANGED effect
  /\ UNCHANGED <<regState, unloads, wsSubscriber, wsChannel, arrivals, loop,
                 listeners, worker, requests, elementObservers, observers,
                 onReadyCount, outbox, trayRenders, skipped, client,
                 unsubscribes, domEventListeners, domEvents, exceptionCount,
                 thrown, reRegistered, os, dom, appContext>>

\* The clock advances by one tick; every RESET_EFFECT_CALLBACK_INTERVAL the
\* window is reset.
EffectTick ==
  /\ effect.now < MaxTicks
  /\ LET reset == (effect.now + 1) % ResetInterval = 0
     IN effect' = [now |-> effect.now + 1,
                   count |-> IF reset THEN 0 ELSE effect.count,
                   sinceReset |-> IF reset THEN 0 ELSE effect.sinceReset,
                   thisTick |-> 0,
                   lastTick |-> effect.thisTick]
  /\ UNCHANGED <<regState, unloads, wsSubscriber, wsChannel, arrivals, loop,
                 listeners, jobQueue, worker, stopped, requests,
                 elementObservers, observers, onReadyCount, outbox,
                 trayRenders, skipped, client, unsubscribes,
                 domEventListeners, domEvents, exceptionCount, thrown,
                 interrupted, reRegistered, os, dom, appContext>>

\* ------------------------------------------- web client (element descriptors)
\* Ids of the page's elements ("": no id) and ids a plugin sets.
PageIds == {"", "main"}

SetIds == {"main", "x"}

\* `plugin-element-${uuidv4()}`: the n-th generated id.
PluginElementId(n) == "plugin-element-" \o ToString(n)

ParentElement(n) ==
  IF n = 1 THEN 0 ELSE IF n <= Container THEN 1 ELSE Container

Children(d, n) == {c \in d.nodes : ParentElement(c) = n}

First(S) == CHOOSE e \in S : \A f \in S : e <= f

\* document.getElementById: the first element with the id, 0 when none.
GetElementById(d, id) ==
  LET S == {n \in d.nodes : d.ids[n] = id}
  IN IF id = "" \/ S = {} THEN 0 ELSE First(S)

\* A handler starts: the descriptors of the one before are gone.
HandlerStart(d) ==
  [d EXCEPT !.sent = {}, !.before = d.ids, !.ops = @ + 1]

\* `if (!element.id) element.id = plugin-element-<uuid>`.
EnsureId(d, e) ==
  IF d.ids[e] = ""
    THEN [d EXCEPT !.ids[e] = PluginElementId(d.uuids + 1), !.uuids = @ + 1]
    ELSE d

\* elementToDOMElement: the element is given an id when it has none; the
\* descriptor carries the id.
ElementToDOMElement(d, e) ==
  LET d1 == EnsureId(d, e)
  IN [d1 EXCEPT !.sent = @ \cup {[elem |-> e, id |-> d1.ids[e]]},
                !.first[e] = IF @ = "" THEN d1.ids[e] ELSE @,
                !.known = @ \cup {d1.ids[e]}]

\* elements.map(e => elementToDOMElement(e)), in document order.
RECURSIVE MapElementToDOMElement(_, _)
MapElementToDOMElement(d, S) ==
  IF S = {} THEN d
  ELSE MapElementToDOMElement(ElementToDOMElement(d, First(S)), S \ {First(S)})

RECURSIVE EnsureIds(_, _)
EnsureIds(d, S) ==
  IF S = {} THEN d ELSE EnsureIds(EnsureId(d, First(S)), S \ {First(S)})

\* The page's document is loaded, its elements with or without ids.
DocumentLoad(ids) ==
  /\ ~dom.loaded
  /\ dom' = [dom EXCEPT !.loaded = TRUE, !.nodes = 1 .. PageNodes,
                        !.ids = [n \in AllNodes |->
                                   IF n <= PageNodes THEN ids[n] ELSE ""]]
  /\ UNCHANGED <<regState, unloads, wsSubscriber, wsChannel, arrivals, loop,
                 listeners, jobQueue, worker, stopped, requests,
                 elementObservers, observers, onReadyCount, outbox,
                 trayRenders, skipped, client, unsubscribes,
                 domEventListeners, domEvents, exceptionCount, thrown,
                 interrupted, effect, reRegistered, os, appContext>>

\* handleDOMQuery: the descriptors of the elements that match the selector.
HandleDOMQuery(S) ==
  /\ dom.loaded
  /\ dom.ops < MaxDomOps
  /\ dom' = MapElementToDOMElement(HandlerStart(dom), S)
  /\ UNCHANGED <<regState, unloads, wsSubscriber, wsChannel, arrivals, loop,
                 listeners, jobQueue, worker, stopped, requests,
                 elementObservers, observers, onReadyCount, outbox,
                 trayRenders, skipped, client, unsubscribes,
                 domEventListeners, domEvents, exceptionCount, thrown,
                 interrupted, effect, reRegistered, os, appContext>>

\* handleDOMQueryOne: the descriptor of the first match, or null.
HandleDOMQueryOne(S) ==
  /\ dom.loaded
  /\ dom.ops < MaxDomOps
  /\ dom' = IF S = {} THEN HandlerStart(dom)
                      ELSE ElementToDOMElement(HandlerStart(dom), First(S))
  /\ UNCHANGED <<regState, unloads, wsSubscriber, wsChannel, arrivals, loop,
                 listeners, jobQueue, worker, stopped, requests,
                 elementObservers, observers, onReadyCount, outbox,
                 trayRenders, skipped, client, unsubscribes,
                 domEventListeners, domEvents, exceptionCount, thrown,
                 interrupted, effect, reRegistered, os, appContext>>

\* handleDOMObserve and the mutation observer: the matching elements are
\* given ids, then their descriptors are sent.
HandleDOMObserveElements(S) ==
  /\ dom.loaded
  /\ dom.ops < MaxDomOps
  /\ S # {}
  /\ dom' = MapElementToDOMElement(EnsureIds(HandlerStart(dom), S), S)
  /\ UNCHANGED <<regState, unloads, wsSubscriber, wsChannel, arrivals, loop,
                 listeners, jobQueue, worker, stopped, requests,
                 elementObservers, observers, onReadyCount, outbox,
                 trayRenders, skipped, client, unsubscribes,
                 domEventListeners, domEvents, exceptionCount, thrown,
                 interrupted, effect, reRegistered, os, appContext>>

\* handleDOMCreate: a new element with a generated id, appended to the hidden
\* container, which is made when absent.
HandleDOMCreate ==
  /\ dom.loaded
  /\ dom.ops < MaxDomOps
  /\ dom.created < MaxCreated
  /\ LET e  == Container + dom.created + 1
         d0 == HandlerStart(dom)
         d1 == [d0 EXCEPT !.nodes = @ \cup {e, Container},
                          !.created = @ + 1,
                          !.ids[e] = PluginElementId(d0.uuids + 1),
                          !.uuids = @ + 1,
                          !.ids[Container] = IF Container \in d0.nodes THEN @
                                             ELSE "plugin-dom-container"]
     IN dom' = ElementToDOMElement(d1, e)
  /\ UNCHANGED <<regState, unloads, wsSubscriber, wsChannel, arrivals, loop,
                 listeners, jobQueue, worker, stopped, requests,
                 elementObservers, observers, onReadyCount, outbox,
                 trayRenders, skipped, client, unsubscribes,
                 domEventListeners, domEvents, exceptionCount, thrown,
                 interrupted, effect, reRegistered, os, appContext>>

\* handleDOMManipulate on the element with the id of a descriptor the plugin
\* holds: setAttribute and removeAttribute of the id, getParent, getChildren,
\* query and queryOne inside the element.  Nothing is done when there is no
\* element with the id.
DomManipulate(elementId, action, value, S) ==
  /\ dom.loaded
  /\ dom.ops < MaxDomOps
  /\ elementId \in dom.known
  /\ LET e  == GetElementById(dom, elementId)
         d0 == HandlerStart(dom)
     IN dom' =
          IF e = 0 THEN d0
          ELSE CASE action = "setAttribute"    -> [d0 EXCEPT !.ids[e] = value]
                 [] action = "removeAttribute" -> [d0 EXCEPT !.ids[e] = ""]
                 [] action = "getParent"       ->
                      IF ParentElement(e) = 0 THEN d0
                      ELSE ElementToDOMElement(d0, ParentElement(e))
                 [] action = "getChildren"     ->
                      MapElementToDOMElement(d0, Children(d0, e))
                 [] action = "query"           ->
                      MapElementToDOMElement(d0, S \cap Children(d0, e))
                 [] action = "queryOne"        ->
                      IF S \cap Children(d0, e) = {} THEN d0
                      ELSE ElementToDOMElement(d0, First(S \cap Children(d0, e)))
  /\ UNCHANGED <<regState, unloads, wsSubscriber, wsChannel, arrivals, loop,
                 listeners, jobQueue, worker, stopped, requests,
                 elementObservers, observers, onReadyCount, outbox,
                 trayRenders, skipped, client, unsubscribes,
                 domEventListeners, domEvents, exceptionCount, thrown,
                 interrupted, effect, reRegistered, os, appContext>>

DomActions ==
  {"setAttribute", "removeAttribute", "getParent", "getChildren", "query",
   "queryOne"}

\* ------------------------------------------------------- permissions, $os
Permissions == {"filesystem:read", "filesystem:write", "execute"}

\* Paths: one inside the extension's data directory, one outside.
Paths == {"/data/x", "/tmp/x"}

AllowedPaths == {"/data/x"}

\* The permission list of the test plugin of loadPlugins with every
\* permission granted.
TestPluginPermissions_All == Permissions

\* The permission list of the test plugin of loadPlugins.
TestPluginPermissions == {}

\* loadPlugins: the test plugin is loaded with its permission list.
LoadPlugins ==
  /\ os.plugin = "none"
  /\ os' = [os EXCEPT !.plugin = "test-plugin",
                      !.permissions = TestPluginPermissions]
  /\ UNCHANGED <<regState, unloads, wsSubscriber, wsChannel, arrivals, loop,
                 listeners, jobQueue, worker, stopped, requests,
                 elementObservers, observers, onReadyCount, outbox,
                 trayRenders, skipped, client, unsubscribes,
                 domEventListeners, domEvents, exceptionCount, thrown,
                 interrupted, effect, reRegistered, dom, appContext>>

\* loadPluginExtension: a plugin is loaded with the permissions it declares.
LoadPluginExtension(permissions) ==
  /\ os.plugin = "none"
  /\ os' = [os EXCEPT !.plugin = "plugin", !.permissions = permissions]
  /\ UNCHANGED <<regState, unloads, wsSubscriber, wsChannel, arrivals, loop,
                 listeners, jobQueue, worker, stopped, requests,
                 elementObservers, observers, onReadyCount, outbox,
                 trayRenders, skipped, client, unsubscribes,
                 domEventListeners, domEvents, exceptionCount, thrown,
                 interrupted, effect, reRegistered, dom, appContext>>

\* The inner check of a host capability: the call is validated against the
\* plugin's permission set, a file operation also against the allowlist.
Permitted(permissions, permission, path) ==
  permission \in permissions /\ path \in AllowedPaths

\* $os.readFile(path): throws PermissionDenied on denial, else reads the
\* file.
OsReadFile(path) ==
  /\ os.plugin # "none"
  /\ os.calls < MaxOsCalls
  /\ os' = IF Permitted(os.permissions, "filesystem:read", path)
             THEN [os EXCEPT !.calls = @ + 1, !.reads = @ + 1,
                             !.last = "readFile: ok"]
             ELSE [os EXCEPT !.calls = @ + 1,
                             !.last = "readFile: PermissionDenied"]
  /\ UNCHANGED <<regState, unloads, wsSubscriber, wsChannel, arrivals, loop,
                 listeners, jobQueue, worker, stopped, requests,
                 elementObservers, observers, onReadyCount, outbox,
                 trayRenders, skipped, client, unsubscribes,
                 domEventListeners, domEvents, exceptionCount, thrown,
                 interrupted, effect, reRegistered, dom, appContext>>

\* $os.writeFile(path, data, perm): throws PermissionDenied on denial, else
\* writes the file.
OsWriteFile(path) ==
  /\ os.plugin # "none"
  /\ os.calls < MaxOsCalls
  /\ os' = IF Permitted(os.permissions, "filesystem:write", path)
             THEN [os EXCEPT !.calls = @ + 1, !.writes = @ + 1,
                             !.last = "writeFile: ok"]
             ELSE [os EXCEPT !.calls = @ + 1,
                             !.last = "writeFile: PermissionDenied"]
  /\ UNCHANGED <<regState, unloads, wsSubscriber, wsChannel, arrivals, loop,
                 listeners, jobQueue, worker, stopped, requests,
                 elementObservers, observers, onReadyCount, outbox,
                 trayRenders, skipped, client, unsubscribes,
                 domEventListeners, domEvents, exceptionCount, thrown,
                 interrupted, effect, reRegistered, dom, appContext>>

\* ------------------------------------------------------------------ unload
RECURSIVE RunCleanupListeners(_, _)
RunCleanupListeners(ls, o) ==
  IF o = 0 THEN ls ELSE CancelFnListeners(RunCleanupListeners(ls, o - 1), o)

RECURSIVE RunCleanupObservers(_, _)
RunCleanupObservers(obs, o) ==
  IF o = 0 THEN obs ELSE CancelFnObservers(RunCleanupObservers(obs, o - 1), o)

RECURSIVE RunCleanupEvents(_, _)
RunCleanupEvents(out, o) ==
  IF o = 0 THEN out ELSE CancelFnEvents(RunCleanupEvents(out, o - 1), o)

\* ClearInterrupt without scheduler.Stop().
ClearInterrupt_NoStop ==
  /\ UNCHANGED <<stopped, jobQueue, reRegistered, os, dom, appContext>>
  /\ wsSubscriber' = IF wsSubscriber = "nil" THEN "nil" ELSE "closed"
  /\ unsubscribes' = IF wsSubscriber = "nil" THEN unsubscribes
                                               ELSE unsubscribes + 1

\* UI.ClearInterrupt: stops the scheduler and unsubscribes from client events
\* when the plugin had subscribed.
ClearInterrupt ==
  /\ stopped' = TRUE
  /\ jobQueue' = <<>>
  /\ wsSubscriber' = IF wsSubscriber = "nil" THEN "nil" ELSE "closed"
  /\ unsubscribes' = IF wsSubscriber = "nil" THEN unsubscribes
                                               ELSE unsubscribes + 1

\* The plugin is unloaded: the VM is interrupted, the cleanup functions
\* registered by jsObserve run, the scheduler is stopped and the plugin
\* unsubscribes.  UI.Register holds u.mu while the script's callback runs.
UnloadBody ==
  /\ regState # "running"
  /\ unloads' = unloads + 1
  /\ worker' = IdleWorker
  /\ listeners' = RunCleanupListeners(listeners, Len(observers))
  /\ elementObservers' = RunCleanupObservers(elementObservers, Len(observers))
  /\ outbox' = RunCleanupEvents(outbox, Len(observers))
  /\ observers' = [o \in DOMAIN observers |-> [observers[o] EXCEPT !.cancelled = TRUE]]
  /\ ClearInterrupt
  /\ UNCHANGED <<regState, wsChannel, arrivals, loop, requests, onReadyCount,
                 trayRenders, skipped, client, domEventListeners, domEvents,
                 exceptionCount, thrown, interrupted, effect, reRegistered,
                 os, dom, appContext>>

Unload ==
  /\ unloads < MaxUnload
  /\ UnloadBody

\* The plugin, already unloaded, is unloaded again.
UnloadAgain ==
  /\ unloaded
  /\ unloads < MaxUnload + MaxAgain
  /\ UnloadBody

\* ------------------------------------------------------- inbound events
\* The reply a conforming client sends to request r.
Reply(r) ==
  ClientPluginEvent(ListenTo(requests[r].kind), Self, r,
                    RequestAction(requests[r].kind), requests[r].elem, TRUE, 1)

OtherAction(a) == IF a = "getText" THEN "getAttribute" ELSE "getText"

\* The replies to request r that can arrive: the conforming one and the ones
\* that differ from it in the requestId (empty), the action, the element or
\* the payload, and the echo of a fire-and-forget manipulation of the element.
RepliesTo(r) ==
  {Reply(r), [Reply(r) EXCEPT !.id = 0]}
  \cup (IF requests[r].kind = "create" THEN {[Reply(r) EXCEPT !.ok = FALSE]} ELSE {})
  \cup (IF requests[r].kind \in {"getText", "getAttribute"}
          THEN {[Reply(r) EXCEPT !.elem = "e2"],
                [Reply(r) EXCEPT !.action = OtherAction(@)],
                [Reply(r) EXCEPT !.action = "setText", !.id = 0]}
          ELSE {})

TrayEvents ==
  {ClientPluginEvent(t, Self, 0, "", "", TRUE, 0) :
     t \in {ClientRenderTraysEvent, ClientRenderTrayEvent}}

WithExtension(evs) == {[e EXCEPT !.ext = x] : e \in evs, x \in {Empty, Self, Other}}

\* Inbound events of the request/reply family: tray events and conforming
\* replies for any extension, the other replies for this plugin.
ReplyEvents ==
  WithExtension(TrayEvents \cup {Reply(r) : r \in DOMAIN requests})
  \cup UNION {RepliesTo(r) : r \in DOMAIN requests}

\* Inbound events of the observer family.
ObserverEvents ==
  {ClientPluginEvent(ClientDOMObserveResultEvent, Self, o, "", "", TRUE, 1) :
     o \in DOMAIN observers}
  \cup {ClientPluginEvent(ClientDOMReadyEvent, Self, 0, "", "", TRUE, 0)}

\* A client event arrives on the plugin's subscriber channel.
ClientSend(ev) ==
  /\ wsSubscriber = "open"
  /\ arrivals < MaxEvents
  /\ arrivals' = arrivals + 1
  /\ wsChannel' = Append(wsChannel, [ev EXCEPT !.seq = arrivals + 1])
  /\ UNCHANGED <<regState, unloads, wsSubscriber, loop, listeners, jobQueue,
                 worker, stopped, requests, elementObservers, observers,
                 onReadyCount, outbox, trayRenders, skipped, client,
                 unsubscribes, domEventListeners, domEvents, exceptionCount,
                 thrown, interrupted, effect, reRegistered, os, dom,
                 appContext>>

\* -------------------------------------------------- web client (DOM manager)
\* safeSendPluginMessage: the event travels to the plugin's subscriber
\* channel, if the plugin is subscribed.
SafeSendAllowed_Always(c) == TRUE

\* `if (disposedRef.current) return` of safeSendPluginMessage.
SafeSendAllowed(c) == ~c.disposed

SafeSendPluginMessage(ev) ==
  IF ~SafeSendAllowed(client) \/ wsSubscriber # "open"
    THEN UNCHANGED <<wsChannel, arrivals>>
    ELSE /\ arrivals' = arrivals + 1
         /\ wsChannel' = Append(wsChannel, [ev EXCEPT !.seq = arrivals + 1])

\* safeSendPluginMessage called for each event of a sequence.
SafeSendPluginMessages(evs) ==
  IF ~SafeSendAllowed(client) \/ wsSubscriber # "open"
    THEN UNCHANGED <<wsChannel, arrivals>>
    ELSE /\ arrivals' = arrivals + Len(evs)
         /\ wsChannel' = wsChannel \o
                           [i \in 1 .. Len(evs) |-> [evs[i] EXCEPT !.seq = arrivals + i]]

\* A page of the web client is loaded (the first one, or a reload): the DOM
\* manager starts afresh on a document with n elements that match the
\* observed selector; server events sent to the previous page are lost.
ClientLoad(n) ==
  /\ client.loads < MaxLoads
  /\ client' = [NoClient EXCEPT !.page = "open", !.loads = client.loads + 1,
                                !.matching = n, !.read = Len(outbox)]
  /\ UNCHANGED <<regState, unloads, wsSubscriber, wsChannel, arrivals, loop,
                 listeners, jobQueue, worker, stopped, requests,
                 elementObservers, observers, onReadyCount, outbox,
                 trayRenders, skipped, unsubscribes, domEventListeners,
                 domEvents, exceptionCount, thrown, interrupted, effect,
                 reRegistered, os, dom, appContext>>

\* sendDOMReadyEvent: once per page, when the document is loaded.
SendDOMReadyEvent ==
  /\ client.page = "open"
  /\ ~client.disposed
  /\ ~client.domReadySent
  /\ client' = [client EXCEPT !.domReadySent = TRUE,
                              !.readySeq = IF wsSubscriber = "open"
                                             THEN arrivals + 1 ELSE 0]
  /\ SafeSendPluginMessage(ClientPluginEvent(ClientDOMReadyEvent, Self, 0, "", "", TRUE, 0))
  /\ UNCHANGED <<regState, unloads, wsSubscriber, loop, listeners, jobQueue,
                 worker, stopped, requests, elementObservers, observers,
                 onReadyCount, outbox, trayRenders, skipped, unsubscribes,
                 domEventListeners, domEvents, exceptionCount, thrown,
                 interrupted, effect, reRegistered, os, dom, appContext>>

\* The elements handleDOMObserve sends for a selector: all the elements of
\* the document that match it.
ObservedElements(matching) == matching

\* handleDOMObserve: stores the observer and, when elements match the
\* selector, sends them all in a dom:observeResult.
HandleDOMObserve(msg) ==
  /\ msg.type = ServerDOMObserveEvent
  /\ IF client.disposed
       THEN /\ client' = [client EXCEPT !.read = @ + 1]
            /\ UNCHANGED <<wsChannel, arrivals>>
       ELSE /\ client' = [client EXCEPT !.read = @ + 1,
                                        !.elementObservers = @ \cup {msg.id}]
            /\ IF client.matching > 0
                 THEN SafeSendPluginMessage(
                        ClientPluginEvent(ClientDOMObserveResultEvent, Self, msg.id,
                                          "", "", TRUE, ObservedElements(client.matching)))
                 ELSE UNCHANGED <<wsChannel, arrivals>>

\* handleDOMStopObserve that leaves the observer in elementObserversRef.
HandleDOMStopObserve_Keep(msg) ==
  /\ msg.type = ServerDOMStopObserveEvent
  /\ client' = [client EXCEPT !.read = @ + 1]
  /\ UNCHANGED <<wsChannel, arrivals, unsubscribes, domEventListeners,
                 domEvents, exceptionCount, thrown, interrupted, effect,
                 reRegistered, os, dom, appContext>>

\* handleDOMStopObserve.
HandleDOMStopObserve(msg) ==
  /\ msg.type = ServerDOMStopObserveEvent
  /\ client' = [client EXCEPT !.read = @ + 1,
                              !.elementObservers = @ \ {msg.id}]
  /\ UNCHANGED <<wsChannel, arrivals, unsubscribes, domEventListeners,
                 domEvents, exceptionCount, thrown, interrupted, effect,
                 reRegistered, os, dom, appContext>>

\* The dom:observeResult events the mutation observer's callback sends: one
\* for every observer of elementObserversRef, in the order of the map.
RECURSIVE MutationResults(_, _)
MutationResults(obs, m) ==
  IF obs = {} THEN <<>>
  ELSE LET o == CHOOSE x \in obs : \A y \in obs : x <= y
       IN <<ClientPluginEvent(ClientDOMObserveResultEvent, Self, o, "", "", TRUE, m)>>
            \o MutationResults(obs \ {o}, m)

\* The document is mutated and the MutationObserver's callback runs: the
\* document then has n elements that match the observed selector, m of them
\* touched by the mutation or not seen before.  Nothing is done when the
\* manager is disposed (the observer is disconnected); else every observer
\* is sent its matched elements, when there are any.
ClientMutation(n, m) ==
  /\ client.page = "open"
  /\ client.mutations < MaxMutations
  /\ m <= n
  /\ client' = [client EXCEPT !.mutations = @ + 1, !.mutatedAt = client.read,
                              !.matching = n]
  /\ IF client.disposed \/ m = 0
       THEN UNCHANGED <<wsChannel, arrivals>>
       ELSE SafeSendPluginMessages(MutationResults(client.elementObservers, m))
  /\ UNCHANGED <<regState, unloads, wsSubscriber, loop, listeners, jobQueue,
                 worker, stopped, requests, elementObservers, observers,
                 onReadyCount, outbox, trayRenders, skipped, unsubscribes,
                 domEventListeners, domEvents, exceptionCount, thrown,
                 interrupted, effect, reRegistered, os, dom, appContext>>

\* element.getAttribute(name): the id is an attribute of the element.
GetAttribute(c, name) == IF name = "id" THEN c.elemId ELSE c.attrs[name]

\* element.setAttribute(name, value).
SetAttribute(c, name, value) ==
  IF name = "id" THEN [c EXCEPT !.elemId = value]
                 ELSE [c EXCEPT !.attrs[name] = value]

\* The result of handleDOMManipulate's switch for the element.
ManipulateResult(c, msg) ==
  CASE msg.action = "setAttribute" -> "true"
    [] msg.action = "getAttribute" -> GetAttribute(c, msg.name)
    [] msg.action = "getText"      -> "text"
    [] OTHER                       -> Null

\* document.getElementById in the client: the element with the id, Null
\* when there is none; e1 is the element whose id the plugin can change.
ClientElementById(c, id) ==
  IF (id = "e1" /\ c.elemId = "e1") \/ id \in TreeElems \ {"e1"}
    THEN id ELSE Null

\* params.key in the client: undefined (no element has that id) when the
\* params have no such key.
Param(params, key, undefined) ==
  IF key \in DOMAIN params THEN params[key] ELSE undefined

Detach(t, x) == [n \in DOMAIN t |-> SelectSeq(t[n], LAMBDA y : y # x)]

ParentNode(t, x) == CHOOSE n \in DOMAIN t : \E i \in DOMAIN t[n] : t[n][i] = x

IndexOf(seq, x) == CHOOSE i \in DOMAIN seq : seq[i] = x

InsertAt(seq, i, x) == SubSeq(seq, 1, i - 1) \o <<x>> \o SubSeq(seq, i, Len(seq))

\* parent.insertBefore(x, ref): x leaves its place and stands before ref.
InsertBefore(t, x, ref) ==
  LET d == Detach(t, x)
      n == ParentNode(d, ref)
  IN [d EXCEPT ![n] = InsertAt(@, IndexOf(@, ref), x)]

\* parent.insertBefore(x, ref.nextSibling): x stands after ref.
InsertAfter(t, x, ref) ==
  LET d == Detach(t, x)
      n == ParentNode(d, ref)
  IN [d EXCEPT ![n] = InsertAt(@, IndexOf(@, ref) + 1, x)]

\* The cases "append", "before" and "after" of handleDOMManipulate's switch:
\* the other element is looked up by params.childId or params.siblingId and
\* moved when it is found.
TreeApply(c, msg) ==
  LET key   == IF msg.action = "append" THEN "childId" ELSE "siblingId"
      other == ClientElementById(c, Param(msg.params, key, Null))
  IN IF other = Null \/ other = msg.elem THEN c
     ELSE CASE msg.action = "append" ->
                 [c EXCEPT !.tree = [Detach(c.tree, other)
                                       EXCEPT ![msg.elem] = Append(@, other)]]
            [] msg.action = "before" ->
                 [c EXCEPT !.tree = InsertBefore(c.tree, other, msg.elem)]
            [] msg.action = "after" ->
                 [c EXCEPT !.tree = InsertAfter(c.tree, other, msg.elem)]

\* The case "addEventListener" of handleDOMManipulate's switch: a new
\* callback is stored in eventListenersRef under params.listenerId (0 is the
\* key undefined), replacing the entry of that key, and attached to the
\* element.
AddEventListener(c, msg) ==
  LET key == Param(msg.params, "listenerId", 0)
      cb  == [id |-> msg.params.listenerID, elem |-> msg.elem,
              event |-> msg.params.event]
  IN [c EXCEPT !.eventListenersRef =
                  {e \in @ : e.key # key} \cup {[key |-> key, cb |-> cb]},
               !.attached = @ \cup {cb}]

\* The case "removeEventListener": the entry under params.listenerId, when
\* there is one, has its callback removed from the element (for the event
\* type of the params) and is deleted from the map.
RemoveEventListener(c, msg) ==
  LET key   == Param(msg.params, "listenerId", 0)
      found == {e \in c.eventListenersRef : e.key = key}
  IN [c EXCEPT !.eventListenersRef = @ \ found,
               !.attached = {cb \in @ :
                               ~\E e \in found :
                                  /\ e.cb = cb
                                  /\ cb.elem = msg.elem
                                  /\ cb.event = msg.params.event}]

\* A DOM event occurs on an element of the page: every callback attached to
\* the element for the event type sends one dom:event message, through
\* safeSendPluginMessage.
ClientDomEvent(elem, event) ==
  /\ client.page = "open"
  /\ LET cbs == {cb \in client.attached : cb.elem = elem /\ cb.event = event}
     IN client' =
          [client EXCEPT
             !.occurred = Append(@, [elem |-> elem, event |-> event,
                                     ids |-> {cb.id : cb \in cbs},
                                     disposed |-> client.disposed]),
             !.triggered = IF SafeSendAllowed(client)
                             THEN @ \o [i \in 1 .. Cardinality(cbs) |->
                                          [elem |-> elem, event |-> event]]
                             ELSE @]
  /\ UNCHANGED <<regState, unloads, wsSubscriber, wsChannel, arrivals, loop,
                 listeners, jobQueue, worker, stopped, requests,
                 elementObservers, observers, onReadyCount, outbox,
                 trayRenders, skipped, unsubscribes, domEventListeners,
                 domEvents, exceptionCount, thrown, interrupted, effect,
                 reRegistered, os, dom, appContext>>

\* The effect of PluginTray on [open]: after the first render, a change of
\* open sends tray:opened or tray:closed.
TraySetOpen(c, what, b) ==
  [c EXCEPT !.open = b,
            !.trayEvents = Append(@, what),
            !.traySent = IF b = c.open THEN @
                         ELSE Append(@, IF b THEN "opened" ELSE "closed")]

TrayOpenAllowed_Always(c) == TRUE

\* `if (hasNavigated)` of the tray open listener.
TrayOpenAllowed(c) == c.hasNavigated

\* The value of __plugin_hasNavigatedAtom changes.
ClientNavigated(b) ==
  /\ client.page = "open"
  /\ client.hasNavigated # b
  /\ client' = [client EXCEPT !.hasNavigated = b]
  /\ UNCHANGED <<regState, unloads, wsSubscriber, wsChannel, arrivals, loop,
                 listeners, jobQueue, worker, stopped, requests,
                 elementObservers, observers, onReadyCount, outbox,
                 trayRenders, skipped, unsubscribes, domEventListeners,
                 domEvents, exceptionCount, thrown, interrupted, effect,
                 reRegistered, os, dom, appContext>>

\* usePluginListenTrayOpenEvent's callback: setOpen(true) if hasNavigated.
ListenTrayOpenEvent ==
  /\ client.page = "open"
  /\ Len(client.trayEvents) < MaxTrayEvents
  /\ client' = TraySetOpen(client, "open",
                           IF TrayOpenAllowed(client) THEN TRUE ELSE client.open)
  /\ UNCHANGED <<regState, unloads, wsSubscriber, wsChannel, arrivals, loop,
                 listeners, jobQueue, worker, stopped, requests,
                 elementObservers, observers, onReadyCount, outbox,
                 trayRenders, skipped, unsubscribes, domEventListeners,
                 domEvents, exceptionCount, thrown, interrupted, effect,
                 reRegistered, os, dom, appContext>>

\* usePluginListenTrayCloseEvent's callback: setOpen(false).
ListenTrayCloseEvent ==
  /\ client.page = "open"
  /\ Len(client.trayEvents) < MaxTrayEvents
  /\ client' = TraySetOpen(client, "close", FALSE)
  /\ UNCHANGED <<regState, unloads, wsSubscriber, wsChannel, arrivals, loop,
                 listeners, jobQueue, worker, stopped, requests,
                 elementObservers, observers, onReadyCount, outbox,
                 trayRenders, skipped, unsubscribes, domEventListeners,
                 domEvents, exceptionCount, thrown, interrupted, effect,
                 reRegistered, os, dom, appContext>>

\* onOpenChange={setOpen} of the popover: the user opens or closes it.
OnOpenChange(b) ==
  /\ client.page = "open"
  /\ Len(client.trayEvents) < MaxTrayEvents
  /\ client.open # b
  /\ client' = TraySetOpen(client, "user", b)
  /\ UNCHANGED <<regState, unloads, wsSubscriber, wsChannel, arrivals, loop,
                 listeners, jobQueue, worker, stopped, requests,
                 elementObservers, observers, onReadyCount, outbox,
                 trayRenders, skipped, unsubscribes, domEventListeners,
                 domEvents, exceptionCount, thrown, interrupted, effect,
                 reRegistered, os, dom, appContext>>

\* cleanup, run when the hook is unmounted: the manager is marked disposed,
\* the callbacks of eventListenersRef whose element is in the document are
\* removed from it, and the maps are cleared.
ClientCleanup ==
  /\ client.page = "open"
  /\ ~client.disposed
  /\ client' =
       [client EXCEPT
          !.disposed = TRUE,
          !.domReadySent = FALSE,
          !.cleanedAt = client.read,
          !.attached = {cb \in @ :
                          ~\E e \in client.eventListenersRef :
                             /\ e.cb = cb
                             /\ ClientElementById(client, cb.elem) # Null},
          !.elementObservers = {},
          !.eventListenersRef = {}]
  /\ UNCHANGED <<regState, unloads, wsSubscriber, wsChannel, arrivals, loop,
                 listeners, jobQueue, worker, stopped, requests,
                 elementObservers, observers, onReadyCount, outbox,
                 trayRenders, skipped, unsubscribes, domEventListeners,
                 domEvents, exceptionCount, thrown, interrupted, effect,
                 reRegistered, os, dom, appContext>>

\* elementToDOMElement for the page's element e1: its id, its tag name, all
\* its attributes, and no children.
ElementDescriptor(c) ==
  [id |-> c.elemId, tagName |-> "div",
   attributes |-> [k \in {"id"} \cup {a \in DOMAIN c.attrs : c.attrs[a] # Null} |->
                     GetAttribute(c, k)],
   children |-> <<>>]

\* handleDOMQueryOne: the descriptor of the element the selector matches is
\* sent as dom:queryOneResult with the requestId.
ClientQueryOne ==
  /\ client.page = "open"
  /\ client.read < Len(outbox)
  /\ outbox[client.read + 1].type = ServerDOMQueryOneEvent
  /\ client' = [client EXCEPT !.read = @ + 1]
  /\ SafeSendPluginMessage(
       [element |-> ElementDescriptor(client)] @@
       ClientPluginEvent(ClientDOMQueryOneResultEvent, Self,
                         outbox[client.read + 1].id, "", "", TRUE, 1))
  /\ UNCHANGED <<regState, unloads, wsSubscriber, loop, listeners, jobQueue,
                 worker, stopped, requests, elementObservers, observers,
                 onReadyCount, outbox, trayRenders, skipped, unsubscribes,
                 domEventListeners, domEvents, exceptionCount, thrown,
                 interrupted, effect, reRegistered, os, dom, appContext>>

\* The cases "query" and "queryOne" of handleDOMManipulate's switch: the
\* result is sent as dom:queryResult (dom:queryOneResult) with the requestId
\* of the params, and the handler returns.
NestedQueryResult(msg) ==
  ClientPluginEvent(IF msg.action = "query" THEN ClientDOMQueryResultEvent
                                            ELSE ClientDOMQueryOneResultEvent,
                    Self, msg.paramsRequestId, "", "", TRUE, 0)

\* handleDOMManipulate: document.getElementById(elementId); when there is no
\* such element the reply carries the error; else the action is applied to
\* the element and the reply carries its result.
HandleDOMManipulate(msg) ==
  /\ msg.type = ServerDOMManipulateEvent
  /\ IF client.disposed
       THEN /\ client' = [client EXCEPT !.read = @ + 1]
            /\ UNCHANGED <<wsChannel, arrivals>>
       ELSE LET found == ClientElementById(client, msg.elem) # Null
                after == IF found /\ msg.action = "setAttribute"
                           THEN SetAttribute(client, msg.name, msg.value)
                           ELSE IF found /\ msg.action \in TreeOps
                                  THEN TreeApply(client, msg)
                           ELSE IF found /\ msg.action = "addEventListener"
                                  THEN AddEventListener(client, msg)
                           ELSE IF found /\ msg.action = "removeEventListener"
                                  THEN RemoveEventListener(client, msg)
                                  ELSE client
                result == IF found THEN ManipulateResult(client, msg)
                                   ELSE ElementNotFound
            IN /\ client' = [after EXCEPT !.read = @ + 1]
               /\ SafeSendPluginMessage(
                    IF found /\ msg.action \in {"query", "queryOne"}
                      THEN NestedQueryResult(msg)
                      ELSE [ClientPluginEvent(ClientDOMElementUpdatedEvent, Self, msg.id,
                                              msg.action, msg.elem, TRUE, 0)
                              EXCEPT !.result = result])

\* The client receives the next dom:manipulate event and runs its handler.
ClientManipulate ==
  /\ client.page = "open"
  /\ client.read < Len(outbox)
  /\ HandleDOMManipulate(outbox[client.read + 1])
  /\ UNCHANGED <<regState, unloads, wsSubscriber, loop, listeners, jobQueue,
                 worker, stopped, requests, elementObservers, observers,
                 onReadyCount, outbox, trayRenders, skipped, unsubscribes,
                 domEventListeners, domEvents, exceptionCount, thrown,
                 interrupted, effect, reRegistered, os, dom, appContext>>

\* The client receives the next server event and runs its handler.
ClientHandle ==
  /\ client.page = "open"
  /\ client.read < Len(outbox)
  /\ \/ HandleDOMObserve(outbox[client.read + 1])
     \/ HandleDOMStopObserve(outbox[client.read + 1])
  /\ UNCHANGED <<regState, unloads, wsSubscriber, loop, listeners, jobQueue,
                 worker, stopped, requests, elementObservers, observers,
                 onReadyCount, outbox, trayRenders, skipped, unsubscribes,
                 domEventListeners, domEvents, exceptionCount, thrown,
                 interrupted, effect, reRegistered, os, dom, appContext>>

\* ------------------------------------------------------------ specifications
\* The goroutines of the runtime: registration, dispatch loop, worker.
Runtime ==
  \/ Register
  \/ RegisterReturn
  \/ LoopReceive
  \/ \E l \in DOMAIN listeners : LoopVisit(l)
  \/ LoopSend
  \/ LoopDone
  \/ LoopExit
  \/ \E l \in DOMAIN listeners : ListenerReceive(l)
  \/ WorkerStart
  \/ WorkerInvoke
  \/ WorkerFinish
  \/ Unload

\* Request/reply: the script issues DOM requests, the client replies.
Next ==
  \/ Runtime
  \/ \E kind \in ReqKinds : JsRequest(kind)
  \/ \E l \in DOMAIN listeners : RequestCallback(l)
  \/ \E ev \in ReplyEvents : ClientSend(ev)

Spec == Init /\ [][Next]_vars

\* Requests stopped by the unload: the script issues requests, the client
\* sends their replies.
NextStop ==
  \/ Runtime
  \/ \E kind \in ReqKinds : JsRequest(kind)
  \/ \E l \in DOMAIN listeners : RequestCallback(l)
  \/ \E r \in DOMAIN requests : ClientSend(Reply(r))

SpecStop == Init /\ [][NextStop]_vars

\* Replies that conform and replies that deviate, for a request matched by
\* its requestId alone and one matched by action and element as well, while
\* the plugin stays loaded.
NextReply ==
  \/ Register
  \/ RegisterReturn
  \/ LoopReceive
  \/ \E l \in DOMAIN listeners : LoopVisit(l)
  \/ LoopSend
  \/ LoopDone
  \/ \E l \in DOMAIN listeners : ListenerReceive(l)
  \/ WorkerStart
  \/ WorkerInvoke
  \/ WorkerFinish
  \/ \E kind \in {"query", "getText"} : JsRequest(kind)
  \/ \E l \in DOMAIN listeners : RequestCallback(l)
  \/ \E ev \in UNION {RepliesTo(r) : r \in DOMAIN requests} : ClientSend(ev)

SpecReply == Init /\ [][NextReply]_vars

\* Events of this plugin, of another extension and without extension id:
\* tray events and the replies to queries.
NextExt ==
  \/ Runtime
  \/ JsRequest("query")
  \/ \E l \in DOMAIN listeners : RequestCallback(l)
  \/ \E ev \in WithExtension(TrayEvents \cup {Reply(r) : r \in DOMAIN requests}) :
       ClientSend(ev)

SpecExt == Init /\ [][NextExt]_vars

\* Listener channels: several events of a query's result type arrive, with
\* the query's requestId or without one.
NextChan ==
  \/ Runtime
  \/ JsRequest("query")
  \/ \E l \in DOMAIN listeners : RequestCallback(l)
  \/ \E r \in DOMAIN requests : \E id \in {0, r} :
       ClientSend([Reply(r) EXCEPT !.id = id])

SpecChan == Init /\ [][NextChan]_vars

\* Observers stopped by the unload: the script observes, results arrive.
NextObsUnload ==
  \/ Runtime
  \/ JsObserve
  \/ \E l \in DOMAIN listeners : ObserveResultCallback(l)
  \/ \E o \in DOMAIN observers :
       ClientSend(ClientPluginEvent(ClientDOMObserveResultEvent, Self, o, "", "", TRUE, 1))

SpecObsUnload == Init /\ [][NextObsUnload]_vars

\* The binding calls the script has made that register a callback.
ScriptCalls ==
  Len(requests) + Len(observers) + onReadyCount + Len(domEventListeners)

\* Promises and DOM-event callbacks: the script issues requests and listens
\* to DOM events; the client answers and DOM events occur.
NextVM ==
  \/ Register
  \/ RegisterReturn
  \/ LoopReceive
  \/ \E l \in DOMAIN listeners : LoopVisit(l)
  \/ LoopSend
  \/ LoopDone
  \/ \E l \in DOMAIN listeners : ListenerReceive(l)
  \/ WorkerStart
  \/ WorkerInvoke
  \/ WorkerFinish
  \/ ScriptCalls < MaxScriptCalls /\ \E kind \in {"query", "create"} : JsRequest(kind)
  \/ ScriptCalls < MaxScriptCalls /\ JsAddEventListener("e1", "click")
  \/ \E l \in DOMAIN listeners : RequestCallback(l)
  \/ domEvents < MaxMixedEvents /\ HandleDOMEvent("e1", "click")
  \/ /\ arrivals < MaxMixedEvents
     /\ \E r \in DOMAIN requests : ClientSend(Reply(r))

SpecVM == Init /\ [][NextVM]_vars

\* Replies with and without the expected result: the script asks for an
\* element's text and creates an element; the client replies with a string,
\* with the error of an element that is not found, with a createResult
\* without element, or with another requestId.
SchemaReplies ==
  UNION {IF requests[r].kind = "getText"
           THEN {[Reply(r) EXCEPT !.result = "text"],
                 [Reply(r) EXCEPT !.result = ElementNotFound],
                 [Reply(r) EXCEPT !.result = "text", !.id = 0]}
           ELSE {Reply(r), [Reply(r) EXCEPT !.ok = FALSE], [Reply(r) EXCEPT !.id = 0]} :
         r \in DOMAIN requests}

NextSchema ==
  \/ Register
  \/ RegisterReturn
  \/ LoopReceive
  \/ \E l \in DOMAIN listeners : LoopVisit(l)
  \/ LoopSend
  \/ LoopDone
  \/ \E l \in DOMAIN listeners : ListenerReceive(l)
  \/ WorkerStart
  \/ WorkerInvoke
  \/ WorkerFinish
  \/ \E kind \in {"getText", "create"} : JsRequest(kind)
  \/ \E l \in DOMAIN listeners : RequestCallback(l)
  \/ \E ev \in SchemaReplies : ClientSend(ev)

SpecSchema == Init /\ [][NextSchema]_vars

\* Nested queries: the script changes the id of the handle's element and
\* queries inside the element, the client applies the manipulations.
NextNested ==
  \/ Register
  \/ RegisterReturn
  \/ LoopReceive
  \/ \E l \in DOMAIN listeners : LoopVisit(l)
  \/ LoopSend
  \/ LoopDone
  \/ \E l \in DOMAIN listeners : ListenerReceive(l)
  \/ WorkerStart
  \/ WorkerInvoke
  \/ WorkerFinish
  \/ \E value \in AttrValues : JsSetAttribute("id", value)
  \/ \E kind \in NestedKinds : JsElementQuery(kind)
  \/ \E l \in DOMAIN listeners : RequestCallback(l)
  \/ ClientLoad(0)
  \/ ClientManipulate

SpecNested == Init /\ [][NextNested]_vars

\* Tree operations: the script appends and inserts elements by their
\* handles, the client applies the manipulations.
NextTree ==
  \/ Register
  \/ RegisterReturn
  \/ LoopReceive
  \/ LoopDone
  \/ Len(outbox) < MaxScriptCalls
       /\ \E op \in TreeOps, elem \in TreeElems, other \in TreeElems :
            elem # other /\ JsTreeOp(op, elem, other)
  \/ ClientLoad(0)
  \/ ClientManipulate

SpecTree == Init /\ [][NextTree]_vars

\* DOM event listeners end to end: the script adds and removes listeners,
\* the client attaches and detaches them, DOM events occur in the page and
\* are handed to the DOM manager.
NextEvt ==
  \/ Register
  \/ RegisterReturn
  \/ LoopReceive
  \/ LoopDone
  \/ WorkerStart
  \/ WorkerInvoke
  \/ WorkerFinish
  \/ client.page = "open"
       /\ \E elem \in Elems, event \in DomEventTypes : JsAddEventListener(elem, event)
  \/ \E l \in DOMAIN domEventListeners : JsRemoveEventListener(l)
  \/ ClientLoad(0)
  \/ ClientManipulate
  \/ Len(client.occurred) < MaxMixedEvents
       /\ \E elem \in Elems, event \in DomEventTypes : ClientDomEvent(elem, event)
  \/ DOMEventTriggered

SpecEvt == Init /\ [][NextEvt]_vars

\* Handles: the script queries the page's element and sets its attributes,
\* the client answers the query and applies the manipulations.
NextHandle ==
  \/ Register
  \/ RegisterReturn
  \/ LoopReceive
  \/ \E l \in DOMAIN listeners : LoopVisit(l)
  \/ LoopSend
  \/ LoopDone
  \/ \E l \in DOMAIN listeners : ListenerReceive(l)
  \/ WorkerStart
  \/ WorkerInvoke
  \/ WorkerFinish
  \/ client.page = "open" /\ JsRequest("queryOne")
  \/ \E l \in DOMAIN listeners : RequestCallback(l)
  \/ \E value \in AttrValues : JsSetAttribute("title", value)
  \/ ClientLoad(0)
  \/ ClientManipulate
  \/ ClientQueryOne

SpecHandle == Init /\ [][NextHandle]_vars

\* Observers in the client: the script observes and cancels, the client
\* handles dom:observe and dom:stopObserve, the document is mutated.
NextMutation ==
  \/ Register
  \/ RegisterReturn
  \/ JsObserve
  \/ \E o \in DOMAIN observers : ScriptCancel(o)
  \/ ClientLoad(1)
  \/ ClientHandle
  \/ \E n \in 0 .. 1, m \in 0 .. 1 : ClientMutation(n, m)

SpecMutation == Init /\ [][NextMutation]_vars

\* The manager's life: the script observes, queries and listens, the client
\* handles the server's events, the document is mutated and its events
\* occur, and the hook is unmounted; the mutations are those that follow the
\* unmounting.
NextCleanup ==
  \/ Register
  \/ RegisterReturn
  \/ ScriptCalls < MaxScriptCalls /\ JsObserve
  \/ ScriptCalls < MaxScriptCalls /\ JsRequest("queryOne")
  \/ ScriptCalls < MaxScriptCalls /\ client.page = "open"
       /\ \E elem \in {"e1"}, event \in DomEventTypes : JsAddEventListener(elem, event)
  \/ ClientLoad(1)
  \/ SendDOMReadyEvent
  \/ ClientHandle
  \/ ClientQueryOne
  \/ ClientManipulate
  \/ client.disposed /\ ClientMutation(1, 1)
  \/ Len(client.occurred) < MaxMixedEvents
       /\ \E elem \in {"e1"}, event \in DomEventTypes : ClientDomEvent(elem, event)
  \/ ClientCleanup

SpecCleanup == Init /\ [][NextCleanup]_vars

\* The app context: the host calls SetModulesPartial.
NextAppContext ==
  \E modules \in [ModuleFields -> {Nil} \cup Handles] : SetModulesPartial(modules)

SpecAppContext == Init /\ [][NextAppContext]_vars

\* The PluginTray component: tray open and close events arrive, the user
\* navigates and uses the popover, the page is reloaded.
NextPluginTray ==
  \/ ClientLoad(0)
  \/ \E b \in BOOLEAN : ClientNavigated(b)
  \/ ListenTrayOpenEvent
  \/ ListenTrayCloseEvent
  \/ \E b \in BOOLEAN : OnOpenChange(b)

SpecPluginTray == Init /\ [][NextPluginTray]_vars

\* Fan-out: listeners with an empty filter list and with lists of several
\* entries are registered; dom:ready, dom:observeResult and dom:queryResult
\* events arrive.
FanOutEvents ==
  {ClientPluginEvent(t, Self, 0, "", "", TRUE, 0) :
     t \in {ClientDOMReadyEvent, ClientDOMObserveResultEvent, ClientDOMQueryResultEvent}}

NextFan ==
  \/ Register
  \/ RegisterReturn
  \/ LoopReceive
  \/ \E l \in DOMAIN listeners : LoopVisit(l)
  \/ LoopSend
  \/ LoopDone
  \/ \E l \in DOMAIN listeners : ListenerReceive(l)
  \/ Len(listeners) <= MaxAllListeners /\ RegisterEventListenerAll
  \/ Len(listeners) <= MaxAllListeners
       /\ \E kind \in FilterKinds : RegisterEventListenerFor(kind)
  \/ \E l \in DOMAIN listeners : AllCallback(l)
  \/ \E l \in DOMAIN listeners : FilterCallback(l)
  \/ \E ev \in FanOutEvents : ClientSend(ev)

SpecFan == Init /\ [][NextFan]_vars

\* Observers: the script observes, cancels and waits for dom:ready.
NextObs ==
  \/ Runtime
  \/ JsObserve
  \/ \E o \in DOMAIN observers : ScriptCancel(o)
  \/ JsOnReady
  \/ \E l \in DOMAIN listeners : ObserveResultCallback(l)
  \/ \E l \in DOMAIN listeners : ObserveReadyCallback(l)
  \/ \E l \in DOMAIN listeners : OnReadyCallback(l)
  \/ \E ev \in ObserverEvents : ClientSend(ev)

SpecObs == Init /\ [][NextObs]_vars

\* Observers, with the plugin unloaded more than once.
NextUnload ==
  \/ NextObs
  \/ UnloadAgain

SpecUnload == Init /\ [][NextUnload]_vars

\* Observers against the web client: the client answers the server's
\* events and sends dom:ready on every page load.
NextClient ==
  \/ Runtime
  \/ JsObserve
  \/ \E o \in DOMAIN observers : ScriptCancel(o)
  \/ \E l \in DOMAIN listeners : ObserveResultCallback(l)
  \/ \E l \in DOMAIN listeners : ObserveReadyCallback(l)
  \/ \E n \in 0 .. MaxElems : ClientLoad(n)
  \/ SendDOMReadyEvent
  \/ ClientHandle

SpecClient == Init /\ [][NextClient]_vars

\* Element attributes: the script sets and gets attributes of the element
\* of a handle, the client applies the manipulations.
NextAttr ==
  \/ Runtime
  \/ \E name \in AttrNames, value \in AttrValues : JsSetAttribute(name, value)
  \/ \E name \in AttrNames : JsGetAttribute(name)
  \/ \E l \in DOMAIN listeners : RequestCallback(l)
  \/ ClientLoad(0)
  \/ ClientManipulate

SpecAttr == Init /\ [][NextAttr]_vars

\* DOM events and exceptions: the script adds DOM event listeners, DOM events
\* arrive, and the callbacks may throw.
NextExc ==
  \/ Register
  \/ RegisterReturn
  \/ \E elem \in {"e1"}, event \in DomEventTypes : JsAddEventListener(elem, event)
  \/ \E elem \in Elems, event \in DomEventTypes : HandleDOMEvent(elem, event)
  \/ WorkerStart
  \/ WorkerInvoke
  \/ WorkerFinish
  \/ WorkerThrow
  \/ Unload

SpecExc == Init /\ [][NextExc]_vars

\* Effects: the registered plugin's effects execute while time passes.
NextEffect ==
  \/ Register
  \/ RegisterReturn
  \/ EffectRun
  \/ EffectTick

SpecEffect == Init /\ [][NextEffect]_vars

\* Request/reply, with $ui.register called more than once.
NextReg ==
  \/ Next
  \/ RegisterAgain

SpecReg == Init /\ [][NextReg]_vars

\* Observers, with the script calling the value ctx.dom.observe returned.
NextRet ==
  \/ Runtime
  \/ JsObserve
  \/ \E o \in DOMAIN observers : ScriptCallReturned(o)
  \/ \E l \in DOMAIN listeners : ObserveResultCallback(l)
  \/ \E ev \in ObserverEvents : ClientSend(ev)

SpecRet == Init /\ [][NextRet]_vars

\* Inbound events of the tray family: tray events for any extension, and
\* dom:ready.
TrayInbound ==
  WithExtension(TrayEvents)
  \cup {ClientPluginEvent(ClientDOMReadyEvent, Self, 0, "", "", TRUE, 0)}

\* Tray events: listeners with an empty filter list are registered, tray
\* events and dom:ready arrive.
NextTray ==
  \/ Register
  \/ RegisterReturn
  \/ LoopReceive
  \/ \E l \in DOMAIN listeners : LoopVisit(l)
  \/ LoopSend
  \/ LoopDone
  \/ LoopExit
  \/ \E l \in DOMAIN listeners : ListenerReceive(l)
  \/ Unload
  \/ RegisterEventListenerAll
  \/ \E l \in DOMAIN listeners : AllCallback(l)
  \/ \E ev \in TrayInbound : ClientSend(ev)

SpecTray == Init /\ [][NextTray]_vars

\* A listener that does not consume: two listeners are registered, events
\* and tray renders arrive.  The dispatch goroutine runs whenever it can,
\* and so do the goroutine and the callback of the second listener; nothing
\* makes the first listener receive from its channel.
NextStall ==
  \/ Register
  \/ RegisterReturn
  \/ LoopReceive
  \/ \E l \in DOMAIN listeners : LoopVisit(l)
  \/ LoopSend
  \/ LoopDone
  \/ \E l \in DOMAIN listeners : ListenerReceive(l)
  \/ Len(listeners) <= MaxAllListeners /\ RegisterEventListenerAll
  \/ Len(listeners) <= MaxAllListeners
       /\ \E kind \in FilterKinds : RegisterEventListenerFor(kind)
  \/ \E l \in DOMAIN listeners : AllCallback(l)
  \/ \E l \in DOMAIN listeners : FilterCallback(l)
  \/ \E ev \in FanOutEvents \cup TrayInbound : ClientSend(ev)

SpecStall ==
  /\ Init /\ [][NextStall]_vars
  /\ WF_vars(LoopReceive)
  /\ WF_vars(\E l \in DOMAIN listeners : LoopVisit(l))
  /\ WF_vars(LoopSend)
  /\ WF_vars(LoopDone)
  /\ WF_vars(ListenerReceive(2))
  /\ WF_vars(AllCallback(2))
  /\ WF_vars(FilterCallback(2))

\* Element descriptors: the client's handlers on a document.
NextDom ==
  \/ \E ids \in [1 .. PageNodes -> PageIds] : DocumentLoad(ids)
  \/ \E S \in SUBSET dom.nodes : HandleDOMQuery(S)
  \/ \E S \in SUBSET dom.nodes : HandleDOMQueryOne(S)
  \/ \E S \in SUBSET dom.nodes : HandleDOMObserveElements(S)
  \/ HandleDOMCreate
  \/ \E elementId \in dom.known, action \in DomActions, value \in SetIds,
        S \in SUBSET dom.nodes : DomManipulate(elementId, action, value, S)

SpecDom == Init /\ [][NextDom]_vars

\* Permissions: a plugin is loaded and calls $os functions.
NextOs ==
  \/ LoadPlugins
  \/ \E permissions \in SUBSET Permissions : LoadPluginExtension(permissions)
  \/ \E path \in Paths : OsReadFile(path)
  \/ \E path \in Paths : OsWriteFile(path)

SpecOs == Init /\ [][NextOs]_vars

\* ------------------------------------------------------------------ claims
\* C1: for every requestId R at most one reply carrying R is consumed: at
\* most one resolve task for the request's promise is ever scheduled.
C1_AtMostOneReplyConsumed ==
  \A r \in DOMAIN requests : requests[r].scheduled <= 1

\* The reply is of the request's own result event type and carries its
\* requestId and, for dom:elementUpdated, its action and elementId.
OwnReply(r, ev) ==
  /\ ev.id = r
  /\ \/ requests[r].kind = "query" /\ ev.type = "dom:queryResult"
     \/ requests[r].kind = "queryOne" /\ ev.type = "dom:queryOneResult"
     \/ requests[r].kind = "create" /\ ev.type = "dom:createResult"
     \/ /\ requests[r].kind \in {"getText", "getAttribute"}
        /\ ev.type = "dom:elementUpdated"
        /\ ev.action = requests[r].kind
        /\ ev.elem = requests[r].elem

C3_OneExecutionInVM ==
  ~(regState = "running" /\ worker.pc \in {"task", "run"})

\* C4: a client event is dispatched (Range over the listeners, or tray
\* render) if and only if its extensionId is empty or the plugin's; an event
\* of another extension is never on a listener channel nor handed to a
\* callback.
C4_DispatchIffAccepted ==
  /\ [][Len(wsChannel') < Len(wsChannel) =>
          LET ev == Head(wsChannel)
              mine == ev.ext = "" \/ ev.ext = Self
              tray == ev.type \in {"render_trays", "render_tray"}
          IN /\ mine <=> skipped' = skipped
             /\ (mine /\ tray) <=> trayRenders' = trayRenders + 1
             /\ (mine /\ ~tray) <=> (loop'.pc = "range" /\ loop'.ev = ev)
             /\ (mine /\ ~tray) => loop'.todo = Registered]_vars
  /\ [](\A l \in DOMAIN listeners :
          /\ listeners[l].ev.ext # Other
          /\ \A i \in DOMAIN listeners[l].chan : listeners[l].chan[i].ext # Other)
  /\ [](loop.ev.ext # Other)

\* The loop has skipped an event of another extension and has placed an
\* event on a listener's channel.
C4_Witness ==
  /\ skipped > 0
  /\ \E l \in DOMAIN listeners : listeners[l].placed > 0

\* C5: events are delivered in arrival order: an event is placed on a
\* listener's channel only after every earlier-received event placed on it,
\* and the channel hands them to the callback in that order.
C5_ArrivalOrder ==
  /\ [][\A l \in DOMAIN listeners :
          listeners'[l].placed # listeners[l].placed =>
            listeners'[l].placed > listeners[l].placed]_vars
  /\ [](\A l \in DOMAIN listeners :
          LET ch == listeners[l].chan
          IN /\ \A i, j \in DOMAIN ch : i < j => ch[i].seq < ch[j].seq
             /\ \A i \in DOMAIN ch : listeners[l].ev.seq < ch[i].seq
             /\ \A i \in DOMAIN ch : ch[i].seq <= listeners[l].placed)

\* Two events matched one listener: the first is with the callback, the
\* second waits on the channel.
C5_Witness ==
  \E l \in DOMAIN listeners :
    /\ listeners[l].pc = "cb"
    /\ listeners[l].chan # <<>>
    /\ listeners[l].ev.seq < listeners[l].chan[1].seq

ObserveSent(o) ==
  Cardinality({i \in DOMAIN outbox :
                 outbox[i].type = "dom:observe" /\ outbox[i].id = o})

\* The number of dom:stopObserve events sent for observer o.
StopObserveSent(o) ==
  Cardinality({i \in DOMAIN outbox :
                 outbox[i].type = "dom:stopObserve" /\ outbox[i].id = o})

\* Every received event has been handled by the loop and the listeners.
Quiescent ==
  /\ wsChannel = <<>>
  /\ loop.pc = "idle"
  /\ \A l \in DOMAIN listeners :
       listeners[l].chan = <<>> /\ listeners[l].pc = "wait"

\* C7: on every dom:ready received, the first and every later one, the
\* server re-sends dom:observe for every observer that is not cancelled.
C7_ObserveResentOnEveryReady ==
  Quiescent =>
    \A o \in elementObservers : ObserveSent(o) >= 1 + observers[o].readies

\* C9: once the cancel function of an observer has been invoked, a
\* dom:stopObserve was sent and the observer's callback is never invoked
\* again.
C9_NoCallbackAfterCancel ==
  /\ [](\A o \in DOMAIN observers :
          observers[o].cancelled => StopObserveSent(o) >= 1)
  /\ [][\A o \in DOMAIN observers :
          observers[o].cancelled => observers'[o].calls = observers[o].calls]_vars

\* C10: after the unload, a dom:stopObserve was issued for every observer,
\* no observer remains in the observer table and neither of an observer's
\* listeners remains registered.
C10_UnloadStopsObservers ==
  unloaded =>
    /\ elementObservers = {}
    /\ \A o \in DOMAIN observers : StopObserveSent(o) >= 1
    /\ \A l \in DOMAIN listeners :
         listeners[l].kind \in {"observeResult", "observeReady"} =>
           ~listeners[l].registered

\* The plugin was unloaded while an observer the script never cancelled was
\* active.
C10_Witness ==
  /\ unloaded
  /\ \E o \in DOMAIN observers :
       observers[o].cancelCalls = 0 /\ StopObserveSent(o) = 1

\* Every event and task has been handled, on the server and in the client.
AllHandled ==
  /\ Quiescent
  /\ jobQueue = <<>>
  /\ worker.pc = "idle"
  /\ client.read = Len(outbox)

\* C8: for an active observer whose selector matches n >= 1 elements, when
\* the client issues dom:ready (and the server receives it) the observer's
\* callback is invoked again with the complete current set of n matching
\* elements: it has been once everything is handled.
C8_SnapshotAgainOnReady ==
  AllHandled =>
    \A o \in elementObservers :
      (/\ client.matching >= 1
       /\ client.readySeq > 0
       /\ observers[o].readySeq = client.readySeq) =>
        \E i \in DOMAIN observers[o].calls :
          /\ observers[o].calls[i].seq > observers[o].readySeq
          /\ observers[o].calls[i].n = client.matching

\* C11: unloading a plugin that is already unloaded changes nothing and has
\* no side effect: no further dom:stopObserve is sent (also for an observer
\* the script had cancelled itself) and no further unsubscribe is made.
C11_UnloadIdempotent ==
  [][(unloaded /\ unloads' = unloads + 1) =>
       /\ outbox' = outbox
       /\ unsubscribes' = unsubscribes
       /\ <<listeners, elementObservers, observers, jobQueue, worker, stopped,
            wsSubscriber>>' =
          <<listeners, elementObservers, observers, jobQueue, worker, stopped,
            wsSubscriber>>]_vars

\* C12: H.setAttribute(k, v) followed at once by H.getAttribute(k), on an
\* element of the page that is still loaded, resolves to v.
C12_SetThenGetAttribute ==
  \A r \in DOMAIN requests :
    \A i \in DOMAIN outbox :
      (/\ requests[r].kind = "getAttribute"
       /\ requests[r].resolved > 0
       /\ client.loads = 1
       /\ i > 1
       /\ outbox[i].action = "getAttribute"
       /\ outbox[i].id = r
       /\ outbox[i - 1].action = "setAttribute"
       /\ outbox[i - 1].elem = outbox[i].elem
       /\ outbox[i - 1].name = outbox[i].name) =>
        requests[r].value = outbox[i - 1].value

\* The script callbacks invoked so far, per request, observer and DOM event
\* listener.
CallbackRuns ==
  <<[r \in DOMAIN requests |-> requests[r].resolved],
    [o \in DOMAIN observers |-> Len(observers[o].calls)],
    [l \in DOMAIN domEventListeners |-> domEventListeners[l].calls]>>

\* C13: while the plugin is not interrupted at most MAX_EXCEPTIONS uncaught
\* exceptions of its callbacks have occurred; exceeding the limit interrupts
\* the VM, and from then on no script callback runs.
C13_ExceptionBudget ==
  /\ [](~interrupted => thrown <= MAX_EXCEPTIONS)
  /\ [](thrown > MAX_EXCEPTIONS => interrupted)
  /\ [][interrupted => CallbackRuns' = CallbackRuns]_vars

\* The plugin was interrupted by its sixth exception while another DOM event
\* arrived afterwards.
C13_Witness ==
  /\ interrupted
  /\ thrown = MAX_EXCEPTIONS + 1
  /\ domEvents > thrown

\* C14 as stated: in any time interval of length
\* RESET_EFFECT_CALLBACK_INTERVAL at most MAX_EFFECT_CALLBACKS effects
\* execute; two consecutive ticks lie within such an interval.
C14_AnyIntervalBudget ==
  effect.lastTick + effect.thisTick <= MAX_EFFECT_CALLBACKS

\* C14 amended: between two consecutive resets of the window at most
\* MAX_EFFECT_CALLBACKS effects execute; an effect due beyond the budget
\* interrupts the plugin, and an interrupted plugin executes no effect.
C14_WindowBudget ==
  /\ [](effect.sinceReset <= MAX_EFFECT_CALLBACKS)
  /\ [][(~interrupted /\ interrupted') =>
          (effect.sinceReset = MAX_EFFECT_CALLBACKS /\ effect' = effect)]_vars
  /\ [][interrupted =>
          (effect'.sinceReset <= effect.sinceReset
             /\ effect'.thisTick <= effect.thisTick)]_vars

\* The budget of a window was used up and the effect due next interrupted
\* the plugin.
C14_Witness ==
  /\ interrupted
  /\ effect.sinceReset = MAX_EFFECT_CALLBACKS

\* C15: once the plugin's scheduler has been stopped by the unload, no task
\* is executed any more: no promise is resolved and no script callback is
\* invoked, whatever replies or events are handled afterwards.
C15_NoTaskAfterStop ==
  /\ [][unloaded => CallbackRuns' = CallbackRuns]_vars
  /\ [](unloaded => (jobQueue = <<>> /\ worker.pc = "idle"))

\* After the unload a request's listener handled the request's own reply
\* (it has unregistered itself) and the promise stays unresolved.
C15_Witness ==
  /\ unloaded
  /\ \E l \in DOMAIN listeners :
       /\ listeners[l].kind \in ReqKinds
       /\ ~listeners[l].registered
       /\ requests[listeners[l].ref].scheduled = 0
       /\ requests[listeners[l].ref].resolved = 0

\* C16: a second $ui.register replaces the prior context: the listeners the
\* first registration created are no longer live, none of them is registered
\* any more and no event is placed on their channels.
C16_RegisterReplacesContext ==
  /\ [](reRegistered.count > 0 =>
          \A l \in 1 .. reRegistered.prior : ~listeners[l].registered)
  /\ [][reRegistered.count > 0 =>
          \A l \in 1 .. reRegistered.prior :
            listeners'[l].placed = listeners[l].placed]_vars

C18_ReturnedFunctionStops ==
  \A o \in DOMAIN observers :
    observers[o].calledReturn =>
      /\ JsObserveReturn.callable
      /\ o \notin elementObservers
      /\ \A l \in DOMAIN listeners :
           (listeners[l].ref = o /\ listeners[l].kind \in {"observeResult", "observeReady"})
             => ~listeners[l].registered

\* C19: every element descriptor sent carries a non-empty id equal to the
\* element's DOM id; an element that had an id keeps it, an element without
\* one gets a generated id no other element has, and an element sent again
\* carries the id it was first sent under.
C19_DescriptorIds ==
  \A s \in dom.sent :
    /\ s.id # ""
    /\ s.id = dom.ids[s.elem]
    /\ dom.before[s.elem] # "" => s.id = dom.before[s.elem]
    /\ dom.before[s.elem] = "" =>
         /\ s.id \in {PluginElementId(n) : n \in 1 .. dom.uuids}
         /\ \A n \in dom.nodes \ {s.elem} : dom.ids[n] # s.id
    /\ s.id = dom.first[s.elem]

\* C20: each accepted render_trays or render_tray event triggers exactly one
\* renderTray call (and nothing else does), starts no Range over the
\* listeners, and is never on a listener's channel nor handed to a callback,
\* whatever the listener's filter list.
C20_TrayEventsToTrayManager ==
  /\ [][Len(wsChannel') < Len(wsChannel) =>
          LET ev == Head(wsChannel)
              mine == ev.ext = "" \/ ev.ext = Self
              tray == ev.type \in {"render_trays", "render_tray"}
          IN (mine /\ tray) =>
               /\ trayRenders' = trayRenders + 1
               /\ loop' = loop
               /\ listeners' = listeners]_vars
  /\ [][trayRenders' # trayRenders =>
          /\ Len(wsChannel') < Len(wsChannel)
          /\ Head(wsChannel).type \in {"render_trays", "render_tray"}]_vars
  /\ [](\A l \in DOMAIN listeners :
          /\ listeners[l].ev.type \notin {"render_trays", "render_tray"}
          /\ \A i \in DOMAIN listeners[l].chan :
               listeners[l].chan[i].type \notin {"render_trays", "render_tray"})
  /\ [](loop.ev.type \notin {"render_trays", "render_tray"})

\* A listener with an empty filter list was handed the first event, and the
\* second event, a tray event, has rendered the tray.
C20_Witness ==
  /\ trayRenders = 1
  /\ arrivals = 2
  /\ \E l \in DOMAIN listeners :
       /\ listeners[l].kind = "all"
       /\ listeners[l].registered
       /\ listeners[l].placed = 1

\* The step enters the script: a promise is resolved or a callback of an
\* observer or of a DOM event listener is invoked.
VMAccessed ==
  \/ \E r \in DOMAIN requests : requests'[r].resolved # requests[r].resolved
  \/ \E o \in DOMAIN observers : observers'[o].calls # observers[o].calls
  \/ \E l \in DOMAIN domEventListeners :
       domEventListeners'[l].calls # domEventListeners[l].calls

\* C21: every access to the VM caused by a client event (a promise resolved,
\* an observer or DOM-event callback invoked) is the worker executing a task
\* it took from the scheduler's queue; the callback of a listener and
\* HandleDOMEvent touch neither the script's objects nor the worker.
C21_VMAccessOnlyInTasks ==
  /\ [][VMAccessed => (worker.pc = "task" /\ worker'.pc = "run")]_vars
  /\ [][(worker.pc = "idle" /\ worker'.pc = "task") =>
          (jobQueue # <<>> /\ worker'.task = Head(jobQueue))]_vars
  /\ [][(\E l \in DOMAIN listeners :
           listeners[l].pc = "cb" /\ listeners'[l].pc = "wait") =>
          (~VMAccessed /\ worker' = worker)]_vars
  /\ [][domEvents' # domEvents => (~VMAccessed /\ worker' = worker)]_vars

\* A promise was resolved and a DOM-event callback was invoked.
C21_Witness ==
  /\ \E r \in DOMAIN requests : requests[r].resolved > 0
  /\ \E l \in DOMAIN domEventListeners : domEventListeners[l].calls > 0

ServerAtRest ==
  /\ Quiescent
  /\ jobQueue = <<>>
  /\ worker.pc = "idle"
  /\ regState = "done"

\* C23: every DOM request is resolved or timed out exactly once, and its
\* reply listener is then removed, also when the client never replies or
\* the plugin's subscription is lost: no promise is resolved twice, and
\* once the server is at rest every request issued has been settled and its
\* listener is unregistered.  (The requests arm no timer, so a request is
\* settled only by its resolution.)
C23_SettledExactlyOnce ==
  \A r \in DOMAIN requests :
    /\ requests[r].resolved <= 1
    /\ ServerAtRest =>
         /\ requests[r].resolved = 1
         /\ \A l \in DOMAIN listeners :
              (listeners[l].kind \in ReqKinds /\ listeners[l].ref = r) =>
                ~listeners[l].registered

\* The reply has the result its request expects: a string for getText, an
\* element object for create.
ExpectedSchema(kind, ev) ==
  /\ kind = "getText" => ev.result \in StringResults
  /\ kind = "create" => ev.ok

\* C24: a reply that does not match its request's requestId, action or
\* expected result schema (a getText reply whose result is not a string,
\* such as {error: "Element not found"}) does not resolve the promise: a
\* promise is resolved only by a reply that matches in all three.
C24_MismatchDiscarded ==
  [][\A r \in DOMAIN requests :
       requests'[r].resolved > requests[r].resolved =>
         /\ worker.task.ev.id = r
         /\ worker.task.ev.action = RequestAction(requests[r].kind)
         /\ ExpectedSchema(requests[r].kind, worker.task.ev)]_vars

\* C25: every element.query and element.queryOne the client processes (the
\* page it was sent to is still the loaded one) is answered by exactly one
\* dom:queryResult (dom:queryOneResult) with the request's requestId, so the
\* promise is resolved, also when the handle's element is no longer in the
\* document: no such promise is resolved twice, and once every event and
\* task is handled, on the server and in the client, each is resolved.
C25_NestedQueryAnswered ==
  \A r \in DOMAIN requests :
    (requests[r].kind \in NestedKinds /\ client.loads = 1) =>
      /\ requests[r].resolved <= 1
      /\ AllHandled => requests[r].resolved = 1

\* The id of the other element that a tree operation was sent with.
TreeArg(msg) == msg.params[CHOOSE k \in DOMAIN msg.params : TRUE]

\* C26: the tree operations take effect in the client: once the client has
\* applied the last operation sent (to the page that is still loaded), after
\* parent.append(child) the child is a child of parent, after
\* el.before(sibling) the sibling immediately precedes el, and after
\* el.after(sibling) the sibling immediately follows el.
C26_TreeOpsTakeEffect ==
  (client.loads = 1 /\ Len(outbox) > 0 /\ client.read = Len(outbox)) =>
    LET msg == outbox[Len(outbox)]
        t   == client.tree
    IN /\ msg.action = "append" =>
            \E i \in DOMAIN t[msg.elem] : t[msg.elem][i] = TreeArg(msg)
       /\ msg.action = "before" =>
            \E n \in DOMAIN t : \E i \in DOMAIN t[n] :
              i > 1 /\ t[n][i] = msg.elem /\ t[n][i - 1] = TreeArg(msg)
       /\ msg.action = "after" =>
            \E n \in DOMAIN t : \E i \in DOMAIN t[n] :
              i > 1 /\ t[n][i - 1] = msg.elem /\ t[n][i] = TreeArg(msg)

\* C27: the removal function returned by addEventListener detaches in the
\* client exactly the listener its addEventListener call attached, and
\* every other listener stays attached: once the client has applied every
\* manipulation sent (to the page that is still loaded), the callbacks
\* attached in the client are those of the listeners not removed.
C27_RemovalDetachesThatListener ==
  (client.loads = 1 /\ client.read = Len(outbox)) =>
    \A l \in DOMAIN domEventListeners :
      domEventListeners[l].stored <=> \E cb \in client.attached : cb.id = l

\* C28: for each occurrence of a DOM event of type T on element E, every
\* callback registered for (E, T) and not removed is invoked exactly once,
\* however many listeners are registered for (E, T): when no listener was
\* removed, every listener was attached before the events occurred and
\* every message and task is handled, each callback has run as many times
\* as events of its type occurred on its element.
C28_OncePerOccurrence ==
  (/\ client.loads = 1
   /\ client.read = Len(outbox)
   /\ client.triggered = <<>>
   /\ jobQueue = <<>>
   /\ worker.pc = "idle"
   /\ \A l \in DOMAIN domEventListeners : domEventListeners[l].stored
   /\ \A i \in DOMAIN client.occurred : \A l \in DOMAIN domEventListeners :
        (/\ domEventListeners[l].elem = client.occurred[i].elem
         /\ domEventListeners[l].event = client.occurred[i].event) =>
          l \in client.occurred[i].ids) =>
    \A l \in DOMAIN domEventListeners :
      domEventListeners[l].calls =
        Cardinality({i \in DOMAIN client.occurred :
                       /\ client.occurred[i].elem = domEventListeners[l].elem
                       /\ client.occurred[i].event = domEventListeners[l].event})

\* C29: a handle carries only the element's identity and tagName, so no
\* handle exposes a value that has gone stale: once the client has applied
\* every manipulation sent, no property of a handle other than id and
\* tagName holds an attribute value that differs from the element's.
C29_NoStaleHandleState ==
  (client.loads = 1 /\ client.read = Len(outbox)) =>
    \A r \in DOMAIN requests :
      (requests[r].kind = "queryOne" /\ requests[r].resolved > 0) =>
        \A k \in (DOMAIN requests[r].value \cap AttrNames) \ {"id", "tagName"} :
          requests[r].value[k] = GetAttribute(client, k)

StopObserveHandled(o) ==
  \E i \in 1 .. client.read :
    /\ outbox[i].type = ServerDOMStopObserveEvent
    /\ outbox[i].id = o
    /\ \A j \in (i + 1) .. client.read :
         ~(outbox[j].type = ServerDOMObserveEvent /\ outbox[j].id = o)

\* C31: after the client has handled dom:stopObserve for an observerId it
\* sends no further dom:observeResult with that observerId, whatever
\* mutations occur, unless a new dom:observe for the id is received.
C31_NoResultAfterStopObserve ==
  [][\A o \in DOMAIN observers :
       StopObserveHandled(o) =>
         \A k \in DOMAIN wsChannel' :
           (/\ wsChannel'[k].type = ClientDOMObserveResultEvent
            /\ wsChannel'[k].id = o) => wsChannel'[k].seq <= arrivals]_vars

C31_Witness ==
  /\ \E o \in DOMAIN observers : StopObserveHandled(o)
  /\ client.read > 0
  /\ outbox[client.read].type = ServerDOMStopObserveEvent
  /\ client.mutatedAt = client.read
  /\ client.matching > 0
  /\ \E k \in DOMAIN wsChannel : wsChannel[k].type = ClientDOMObserveResultEvent

\* C32: once cleanup() has run, that manager sends no further plugin
\* message: no dom:ready, no reply to a query or a manipulation, no
\* dom:observeResult and no forwarded DOM event.
C32_SilentAfterCleanup ==
  [][(client.disposed /\ client'.loads = client.loads) =>
       /\ client'.disposed
       /\ arrivals' = arrivals
       /\ wsChannel' = wsChannel
       /\ client'.triggered = client.triggered]_vars

C32_Witness ==
  /\ client.disposed
  /\ client.mutations > 0
  /\ \E i \in DOMAIN client.occurred :
       client.occurred[i].disposed /\ client.occurred[i].ids # {}

\* The component has just received the tray event `what`.
TrayReceived(what) ==
  /\ client'.loads = client.loads
  /\ Len(client'.trayEvents) = Len(client.trayEvents) + 1
  /\ client'.trayEvents[Len(client'.trayEvents)] = what

C34_UpdatesExactlySupplied ==
  [][appContext'.calls = appContext.calls + 1 =>
       \A f \in ModuleFields :
         Accessor(appContext', f) =
           IF appContext'.modules[f] # Nil THEN appContext'.modules[f]
                                          ELSE Accessor(appContext, f)]_vars

\* C35 as stated: each handle is absent in a fresh context and, once
\* present, never changes and never becomes absent.
C35_HandlesSetAtMostOnce ==
  [][/\ appContext.calls = 0 =>
          \A f \in ModuleFields : Accessor(appContext, f) = None
     /\ \A f \in ModuleFields :
          Accessor(appContext, f) # None =>
            Accessor(appContext', f) = Accessor(appContext, f)]_vars

\* C35 amended: each handle is absent in a fresh context and, once present,
\* never becomes absent; it changes only to a non-nil handle supplied by a
\* later SetModulesPartial.
C35_HandlesNeverCleared ==
  [][/\ appContext.calls = 0 =>
          \A f \in ModuleFields : Accessor(appContext, f) = None
     /\ \A f \in ModuleFields :
          Accessor(appContext, f) # None =>
            /\ Accessor(appContext', f) # None
            /\ \/ Accessor(appContext', f) = Accessor(appContext, f)
               \/ Accessor(appContext', f) = appContext'.modules[f]]_vars

C35_Witness ==
  /\ appContext.calls = 2
  /\ appContext.database = "h1"
  /\ appContext.modules["Database"] = Nil
  /\ appContext.anilistPlatform = "h2"
  /\ "AnilistPlatform" \in appContext.replaced
  /\ appContext.wsEventManager = None

\* An event has arrived that the dispatch goroutine has not finished with.
DispatchPending == wsChannel # <<>> \/ loop.pc # "idle"

\* The channel of listener l is full.
ChannelFull(l) ==
  l \in DOMAIN listeners /\ Len(listeners[l].chan) = ChanCap

\* C36: delivery to one listener does not depend on another's consumption:
\* if the channel of listener 1 is full and never drained, every event that
\* has arrived, for listener 2 or for the tray, is still eventually
\* dispatched.
C36_DeliveryIndependent ==
  (DispatchPending /\ ChannelFull(1)) ~> (~DispatchPending \/ ~ChannelFull(1))

\* C37: after the removal function returned by addEventListener has run,
\* the listener's callback is never invoked again, not even by a task that
\* HandleDOMEvent had scheduled before the removal.
C37_NoCallbackAfterRemoval ==
  [][\A l \in DOMAIN domEventListeners :
       ~domEventListeners[l].stored =>
         domEventListeners'[l].calls = domEventListeners[l].calls]_vars

\* C38: an onReady callback is invoked at most once per registration: once
\* the first dom:ready has been handled its listener is unregistered, and a
\* second dom:ready, from a reload or already queued, does not schedule the
\* callback again.
C38_OnReadyAtMostOnce ==
  [][\A l \in DOMAIN listeners :
       (listeners[l].kind = "onReady" /\ ~listeners[l].registered) =>
         ~(/\ listeners[l].pc = "cb"
           /\ listeners'[l].pc = "wait"
           /\ Len(jobQueue') = Len(jobQueue) + 1)]_vars

====
